---- MODULE Spec2Model ----
(***************************************************************************)
(* Verification model of the odemis acquisition framework:                 *)
(*   - gui/acqmng.py  : ProgressiveFuture, _executeTask, AcquisitionTask   *)
(*   - driver/pvcam.py: PVCam acquisition thread, start/req_stop flow      *)
(*   - acq/align/delphi.py: the conversion update pipeline, its time       *)
(*     estimates and CalculateExtraOffset; the sub-tasks HoleDetection,    *)
(*     AlignAndOffset and RotationAndScaling with their centring loops     *)
(*   - driver/lle.py  : LLE, the lock of the serial port and _tryRecover   *)
(*                                                                         *)
(* The code is Python 2 (Thread.isAlive, numpy.sum(dict.values())), so     *)
(* futures.Future is the "futures" backport: Future.set_result and         *)
(* Future.set_exception store the outcome and set the state to FINISHED    *)
(* without looking at the current state.                                   *)
(*                                                                         *)
(* Times are integers: the clock advances by TickLen, and the value        *)
(* NotStarted (-1) stands for the -1e-9 that _report_update reports for a  *)
(* pending future.  Lengths are integers in micrometres.                   *)
(*                                                                         *)
(* SpecLive, SpecCamLive and SpecSubLive are Spec, SpecCam and SpecSub     *)
(* with the threads of the program scheduled fairly.                       *)
(***************************************************************************)
EXTENDS Integers, Sequences, FiniteSets, TLC

\* ------------------------------------------------------------------------
\* Bounds
\* ------------------------------------------------------------------------
NumStreams == 2
MaxTime == 2
MaxCancels == 2
NumListeners == 1
MaxFlows == 2
MaxFrames == 2
NumSettings == 2
MaxConvCancels == 1
MaxSrnCalls == 2
MaxIOFaults == 3
MaxLleCalls == 2
MaxShift == 1
MaxScaling == 2
MaxRotation == 1
MaxExp == 12
MaxEt == 2
MaxSubRuns == 2
MaxSubCancels == 1

\* ------------------------------------------------------------------------
\* Program constants
\* ------------------------------------------------------------------------
TickLen == 2
NotStarted == -1

PENDING == "PENDING"
RUNNING == "RUNNING"
CANCELLED == "CANCELLED"
CANCELLED_AND_NOTIFIED == "CANCELLED_AND_NOTIFIED"
FINISHED == "FINISHED"

NoStream == 0
NoSettings == 0
NoValue == "NoValue"
\* Future._result before a result is set; a tuple, as the results are
NoResult == <<NoValue>>
NoReport == [past |-> 0, left |-> 0 - 1, state |-> "none"]
\* delphi.py: the error margin of a detection (30e-06 m, here in micrometres)
\* and the largest number of steps to reach a hole or a spot
ERR_MARGIN == 30
MAX_STEPS == 10
\* dist=None
NoDist == 0 - 1
\* a time estimate has not returned
NoEstimate == [steps |-> 0 - 1, time |-> 0 - 1]
\* CalculateExtraOffset has not returned
NoExtra == [updated_offset |-> << >>, updated_rotation |-> 0]

\* delphi.py: the expected positions of the holes as the module is loaded
\* (0, 11e-03) and (0, -11e-03), and the four positions of the spots, here
\* in micrometres
ExpectedHolesAtImport == <<<<0, 11000>>, <<0, 0 - 11000>>>>
ROTATION_SPOTS ==
    <<<<5000, 0>>, <<0 - 5000, 0>>, <<0, 5000>>, <<0, 0 - 5000>>>>
\* no image has been analysed yet: tab is not bound
NoTab == << >>

\* the sub-tasks of the calibration pipeline, in the order of the code
SubOrder == <<"HoleDetection", "AlignAndOffset", "RotationAndScaling">>
SubTasks == {SubOrder[i] : i \in 1 .. Len(SubOrder)}

Streams == 1 .. NumStreams

\* the threads that use the light engine: the "LLE temperature update"
\* timer, and a client that sets the power or the emissions
LleThreads == {"timer", "client"}
NoThread == "none"
\* the commands one _updateIntensities sends when every source is to be
\* set: the intensities, then the sources to enable
UpdCommands == 2
Listeners == 1 .. NumListeners
Settings == 1 .. NumSettings

VARIABLES
    \* ---- ProgressiveFuture (acqmng.py) ----
    state,            \* Future._state
    result,           \* Future._result (NoResult or the list of raw images)
    exception,        \* Future._exception (NoValue or "error")
    start_time,       \* ProgressiveFuture._start_time
    end_time,         \* ProgressiveFuture._end_time
    upd_callbacks,    \* ProgressiveFuture._upd_callbacks (set of listeners)
    task_canceller,   \* ProgressiveFuture.task_canceller ("None" or "task.cancel")
    lastReport,       \* per listener, the last (past, left) it was called with
    registered,       \* listeners for which add_update_callback was called
    \* ---- AcquisitionTask (acqmng.py) ----
    streams,          \* AcquisitionTask._streams, in acquisition order
    current_stream,   \* AcquisitionTask._current_stream
    cancelled,        \* AcquisitionTask._cancelled
    expected_time,    \* local of run()
    raw_images,       \* local of run()
    idx,              \* position of the for loop of run() in streams
    subscribed,       \* per stream: _image_listener subscribed to s.image
    is_active,        \* per stream: s.is_active.value
    md_description,   \* per stream: metadata[MD_DESCRIPTION] of its raw data
    \* ---- threads ----
    now,              \* time.time()
    pc,               \* position of the "Acquisition task" thread
    srn,              \* value returned by Future.set_running_or_notify_cancel
    tpc,              \* position of the "Acquisition timer update" thread
    tTodo,            \* callbacks the timer thread has still to report to
    tReport,          \* report the timer thread has computed and not yet given
    upc,              \* position of the thread calling future.cancel()
    ncancel,          \* number of cancel() calls made so far
    cancelRet,        \* value returned by the last cancel() call
    cancellerRet,     \* value returned by the last task_canceller() call
    \* ---- an executor driving the future by its methods ----
    srnCalls,         \* number of set_running_or_notify_cancel() calls
    srnRet,           \* what the last of them returned or raised
    \* ---- observation (history) ----
    cancelAt,         \* pc of the task thread when task_canceller() ran
    notified,         \* streams whose image notification reached _image_listener
    activatedAfterCancel, \* a stream was activated after task_canceller() returned
    \* ---- PVCam (pvcam.py) ----
    cpc,              \* position of the "PVCam acquire flow thread"
    retries,          \* local of _acquire_thread_run
    need_reinit,      \* local of _acquire_thread_run
    cbuffer,          \* local of _acquire_thread_run: a sequence is set up
    acquire_must_stop,\* PVCam.acquire_must_stop (Event)
    acquisition_lock, \* PVCam.acquisition_lock is held
    settings,         \* binning, region, exposure time, readout rate, gain
    prev_settings,    \* PVCam._prev_settings (NoSettings for [None] * 4)
    expStatus,        \* what pl_exp_check_status reports
    camPresent,       \* the camera answers (temperature is not TEMP_CAM_GONE)
    flow,             \* the data flow: "stopped", "started", "stopping"
    nflows,           \* number of start_flow() calls so far
    \* ---- observation (history) of the current flow ----
    delivered,        \* number of callback(array) calls
    consec,           \* transient faults since the last frame
    faultsBeforeFrame,\* transient faults that preceded the last frame
    fatal,            \* the loop ended by "Too many failures"
    stopReturned,     \* req_stop_flow() has returned
    tdSteps,          \* steps of the finally clause the thread has run
    tdFaults,         \* steps of the finally clause that raised PVCamError
    releases,         \* number of acquisition_lock.release() of the thread
    startVia,         \* how the iteration got to pl_exp_start_seq
    \* ---- calibration pipeline (acq/align/delphi.py) ----
    first_insertion,  \* argument of UpdateConversion
    conversion_update_state, \* future._conversion_update_state
    conv_done,        \* future._done (Event) is set
    kpc,              \* position of the "Conversion update" thread
    ksub,             \* index in SubOrder of the sub-task the thread is at
    convBody,         \* how the try block of _DoUpdateConversion ended
    convOutcome,      \* how _DoUpdateConversion ended (after its finally)
    subFut,           \* per sub-task: state of its future
    subThread,        \* per sub-task: state of its thread
    xpc,              \* position of the thread in _CancelUpdateConversion
    convCancels,      \* number of _CancelUpdateConversion calls so far
    convCancelRet,    \* value returned by the last _CancelUpdateConversion
    \* ---- observation (history) of the pipeline ----
    started,          \* the sub-tasks started, in order
    cancelledSubs,    \* sub-task futures the last canceller call cancelled
    metadataUpdated,  \* combined_stage.updateMetadata was called
    doneAtReturn,     \* _done was set when the canceller returned
    \* ---- AcquisitionTask.__init__ (acqmng.py) ----
    given,            \* the list of streams given to AcquisitionTask
    kindOf,           \* per given stream: its class (and name for a SEM stream)
    keysOrder,        \* self._streamTimes.keys()
    opc,              \* position in AcquisitionTask.__init__
    \* ---- LLE (driver/lle.py) ----
    ser_access,       \* LLE._ser_access (threading.Lock) is locked
    lpc,              \* per thread: its position in the driver
    lop,              \* per thread: the method it runs
    lleft,            \* per thread: commands _updateIntensities has still to send
    lio,              \* per thread: the access that failed, in _tryRecover
    lstack,           \* per thread: the calls suspended in _tryRecover
    nIOFaults,        \* number of IOError and timeouts of the port so far
    nLleCalls,        \* number of calls of the driver so far
    \* ---- observation (history) of the serial port ----
    ser_holder,       \* the thread that locked _ser_access
    unlockedIO,       \* a thread used the port without having locked
    badRelease,       \* a thread released _ser_access without having locked
    \* ---- CalculateExtraOffset (acq/align/delphi.py) ----
    extraIn,          \* the arguments of a call
    extraOut,         \* what the call returned
    \* ---- the time estimates (acq/align/delphi.py) ----
    estIn,            \* the function called and its arguments et and dist
    estOut,           \* what the call returned
    \* ---- a sub-task of the pipeline (acq/align/delphi.py) ----
    EXPECTED_HOLES,   \* the module-level EXPECTED_HOLES
    sfun,             \* the sub-task that was started last
    sub_state,        \* future._hole_detection_state, _align_offset_state
                      \* or _rotation_scaling_state
    spc,              \* position of the thread of the sub-task
    marker,           \* the loop variable "hole" or "spots" (from 1)
    steps,            \* local of the centring loop
    tab,              \* local of the centring loop
    sem_position,     \* sem_stage.position.value
    sem_spots,        \* local of _DoRotationAndScaling
    subBody,          \* how the try block of the sub-task ended
    subOutcome,       \* how the function of the sub-task ended
    subResult,        \* what the function of the sub-task returned
    subCancelRet,     \* value returned by the last call of the canceller
    subCancels,       \* calls of the canceller for this sub-task
    subRuns,          \* number of sub-tasks started so far
    \* ---- the stage and the sample holder ----
    markAt,           \* where the markers are, relative to the expected
    \* ---- observation (history) of the sub-task ----
    relMoves,         \* moveRel calls since the last moveAbs
    absTargets,       \* the targets of the moveAbs calls of this run
    recorded,         \* positions recorded in this run
    stateTrail        \* the values the state of the sub-task has taken

futVars == <<state, result, exception, start_time, end_time, upd_callbacks,
             task_canceller, lastReport, registered>>
taskVars == <<streams, md_description, current_stream, cancelled,
              expected_time, raw_images, idx, subscribed, is_active>>
timerVars == <<tpc, tTodo, tReport>>
thrVars == <<now, pc, srn, timerVars, upc, ncancel, cancelRet, cancellerRet>>
obsVars == <<cancelAt, notified, activatedAfterCancel>>
tdVars == <<tdSteps, tdFaults, releases>>
acqVars == <<futVars, taskVars, thrVars, obsVars>>
camVars == <<cpc, retries, need_reinit, cbuffer, acquire_must_stop,
             acquisition_lock, settings, prev_settings, expStatus, camPresent,
             flow, nflows, delivered, consec, faultsBeforeFrame, fatal,
             stopReturned, tdVars, startVia>>
calVars == <<first_insertion, conversion_update_state, conv_done, kpc, ksub,
             convBody, convOutcome, subFut, subThread, xpc, convCancels,
             convCancelRet, started, cancelledSubs, metadataUpdated,
             doneAtReturn>>
apiVars == <<srnCalls, srnRet>>
ordVars == <<given, kindOf, keysOrder, opc>>
lleVars == <<ser_access, lpc, lop, lleft, lio, lstack, nIOFaults, nLleCalls,
             ser_holder, unlockedIO, badRelease>>
extraVars == <<extraIn, extraOut>>
estVars == <<estIn, estOut>>
subVars == <<EXPECTED_HOLES, sfun, sub_state, spc, marker, steps, tab,
             sem_position, sem_spots, subBody, subOutcome, subResult,
             subCancelRet, subCancels, subRuns, markAt, relMoves,
             absTargets, recorded, stateTrail>>
otherVars == <<ordVars, lleVars, extraVars, estVars, subVars>>
nonOrdVars ==
    <<acqVars, camVars, calVars, apiVars, lleVars, extraVars, estVars, subVars>>
nonLleVars ==
    <<acqVars, camVars, calVars, apiVars, ordVars, extraVars, estVars, subVars>>
nonExtraVars ==
    <<acqVars, camVars, calVars, apiVars, ordVars, lleVars, estVars, subVars>>
nonEstVars ==
    <<acqVars, camVars, calVars, apiVars, ordVars, lleVars, extraVars, subVars>>
nonSubVars ==
    <<acqVars, camVars, calVars, apiVars, ordVars, lleVars, extraVars, estVars>>
nonAcqVars == <<camVars, calVars, apiVars, otherVars>>
nonCamVars == <<acqVars, calVars, apiVars, otherVars>>
nonCalVars == <<acqVars, camVars, apiVars, otherVars>>
vars == <<acqVars, camVars, calVars, apiVars, otherVars>>

\* ------------------------------------------------------------------------
\* Helpers
\* ------------------------------------------------------------------------
RECURSIVE SumTimes(_, _)
SumTimes(f, S) ==
    IF S = {} THEN 0
    ELSE LET s == CHOOSE x \in S : TRUE IN f[s] + SumTimes(f, S \ {s})

\* Stream.estimateAcquisitionTime(), as stored in AcquisitionTask._streamTimes
streamTimes == [s \in Streams |-> TickLen * s]

\* s.name.value, the display name of a stream
name_value(s) == <<"name", s>>

\* the data of a stream before run() has put a description in its metadata
NoDescription == <<"none", NoStream>>

\* mutant: the time left is reported as computed, without the clamp
ReportUpdate_NoClamp(st, st_time, e_time, t) ==
    IF st \in {CANCELLED, CANCELLED_AND_NOTIFIED, FINISHED}
    THEN [past |-> e_time - st_time, left |-> 0, state |-> st]
    ELSE IF st = PENDING
    THEN [past |-> IF t - st_time >= 0 THEN NotStarted ELSE t - st_time,
          left |-> e_time - t,
          state |-> st]
    ELSE [past |-> t - st_time, left |-> e_time - t, state |-> st]

\* ProgressiveFuture._report_update: the (past, left) handed to a callback
ReportUpdate(st, st_time, e_time, t) ==
    IF st \in {CANCELLED, CANCELLED_AND_NOTIFIED, FINISHED}
    THEN [past |-> e_time - st_time, left |-> 0, state |-> st]
    ELSE IF st = PENDING
    THEN [past |-> IF t - st_time >= 0 THEN NotStarted ELSE t - st_time,
          left |-> IF e_time - t < 0 THEN 0 ELSE e_time - t,
          state |-> st]
    ELSE [past |-> t - st_time,
          left |-> IF e_time - t < 0 THEN 0 ELSE e_time - t,
          state |-> st]

\* ProgressiveFuture._invoke_upd_callbacks: every stored callback is called
\* with the progress computed from the given future state
InvokeUpdCallbacks(cbs, st, st_time, e_time) ==
    [l \in Listeners |->
        IF l \in cbs THEN ReportUpdate(st, st_time, e_time, now)
        ELSE lastReport[l]]

\* Future.done()
Done(st) == st \in {CANCELLED, CANCELLED_AND_NOTIFIED, FINISHED}

\* ------------------------------------------------------------------------
\* Initial state: startAcquisition() has built the future and the task and
\* started the "Acquisition task" thread, which has not run yet.  A future
\* may also be left as constructed, without task canceller.
\* ------------------------------------------------------------------------
InitRun ==
    /\ state = PENDING
    /\ result = NoResult
    /\ exception = NoValue
    /\ now = 0
    /\ start_time = TickLen
    /\ end_time = TickLen + TickLen
    /\ upd_callbacks = {}
    /\ task_canceller \in {"None", "task.cancel"}
    /\ lastReport = [l \in Listeners |-> NoReport]
    /\ registered = {}
    /\ md_description = [s \in Streams |-> NoDescription]
    /\ current_stream = NoStream
    /\ cancelled = FALSE
    /\ expected_time = 0
    /\ raw_images = << >>
    /\ idx = 1
    /\ subscribed = [s \in Streams |-> FALSE]
    /\ is_active = [s \in Streams |-> FALSE]
    /\ pc = "start"
    /\ srn = FALSE
    /\ tpc = "none"
    /\ tTodo = {}
    /\ tReport = NoReport
    /\ upc = "idle"
    /\ ncancel = 0
    /\ cancelRet = "NotCalled"
    /\ cancellerRet = "NotCalled"
    /\ cancelAt = "never"
    /\ notified = {}
    /\ activatedAfterCancel = FALSE

\* AcquisitionTask.__init__ has run on the list of all the streams, which
\* are of one class, and the keys of _streamTimes came in the order of
\* the list
InitOrd ==
    /\ given = [i \in 1 .. NumStreams |-> i]
    /\ kindOf = [s \in Streams |-> "FluoStream"]
    /\ keysOrder = given
    /\ opc = "done"

InitAcq == InitRun /\ streams = [i \in 1 .. NumStreams |-> i]

\* neither CalculateExtraOffset nor a time estimate was called
InitPure ==
    /\ extraIn = NoValue
    /\ extraOut = NoExtra
    /\ estIn = NoValue
    /\ estOut = NoEstimate

\* delphi.py is loaded and no sub-task has been started
InitSubState ==
    /\ EXPECTED_HOLES = ExpectedHolesAtImport
    /\ sfun = "none"
    /\ sub_state = "none"
    /\ spc = "idle"
    /\ marker = 1
    /\ steps = 0
    /\ tab = NoTab
    /\ sem_position = <<0, 0>>
    /\ sem_spots = << >>
    /\ subBody = "none"
    /\ subOutcome = "none"
    /\ subResult = << >>
    /\ subCancelRet = "NotCalled"
    /\ subCancels = 0
    /\ subRuns = 0
    /\ relMoves = 0
    /\ absTargets = << >>
    /\ recorded = << >>
    /\ stateTrail = << >>

\* the same, with the sample holder where it is expected
InitSub == InitSubState /\ markAt = <<0, 0>>

\* LLE.__init__ has returned: the lock is free, recovery is enabled, and
\* no thread is in the driver
InitLle ==
    /\ ser_access = FALSE
    /\ lpc = [t \in LleThreads |-> "idle"]
    /\ lop = [t \in LleThreads |-> "none"]
    /\ lleft = [t \in LleThreads |-> 0]
    /\ lio = [t \in LleThreads |-> "none"]
    /\ lstack = [t \in LleThreads |-> << >>]
    /\ nIOFaults = 0
    /\ nLleCalls = 0
    /\ ser_holder = NoThread
    /\ unlockedIO = FALSE
    /\ badRelease = FALSE

\* PVCam.__init__: no flow, no thread, the Event clear, the lock free
InitCamState ==
    /\ cpc = "none"
    /\ retries = 0
    /\ need_reinit = TRUE
    /\ cbuffer = FALSE
    /\ acquire_must_stop = FALSE
    /\ acquisition_lock = FALSE
    /\ settings = 1
    /\ prev_settings = NoSettings
    /\ expStatus = "not_active"
    /\ camPresent = TRUE
    /\ flow = "stopped"
    /\ delivered = 0
    /\ consec = 0
    /\ faultsBeforeFrame = 0
    /\ fatal = FALSE
    /\ stopReturned = FALSE
    /\ tdSteps = {}
    /\ tdFaults = {}
    /\ releases = 0
    /\ startVia = "none"

\* no start_flow() call has been made
InitCam == InitCamState /\ nflows = 0

\* UpdateConversion: the future is set up with three InstantaneousFuture in
\* the place of the sub-task futures, and the "Conversion update" thread is
\* started
InitCal ==
    /\ conversion_update_state = RUNNING
    /\ conv_done = FALSE
    /\ kpc = "begin"
    /\ ksub = 1
    /\ convBody = "none"
    /\ convOutcome = "none"
    /\ subFut = [k \in SubTasks |-> "instantaneous"]
    /\ subThread = [k \in SubTasks |-> "none"]
    /\ xpc = "idle"
    /\ convCancels = 0
    /\ convCancelRet = "NotCalled"
    /\ started = << >>
    /\ cancelledSubs = {}
    /\ metadataUpdated = FALSE
    /\ doneAtReturn = FALSE

\* no method of the future has been called
InitApi ==
    /\ srnCalls = 0
    /\ srnRet = "NotCalled"

Init ==
    /\ InitAcq
    /\ InitCam
    /\ InitCal
    /\ first_insertion = TRUE
    /\ InitApi
    /\ InitOrd
    /\ InitLle
    /\ InitSub
    /\ InitPure

\* ------------------------------------------------------------------------
\* The "Acquisition task" thread: _executeTask(future, task.run)
\* ------------------------------------------------------------------------

\* Future.set_running_or_notify_cancel (futures backport)
SetRunningOrNotifyCancel ==
    /\ pc = "start"
    /\ state \in {CANCELLED, PENDING}
    /\ state' = IF state = CANCELLED THEN CANCELLED_AND_NOTIFIED ELSE RUNNING
    /\ srn' = (state = PENDING)
    /\ pc' = "srn_time"
    /\ UNCHANGED <<nonAcqVars, result, exception, start_time, end_time, upd_callbacks,
                   task_canceller, lastReport, registered, taskVars, now, timerVars,
                   upc, ncancel, cancelRet, cancellerRet, obsVars>>

\* ProgressiveFuture.set_running_or_notify_cancel, the times
SetRunningTimes ==
    /\ pc = "srn_time"
    /\ start_time' = now
    /\ end_time' = IF srn THEN now ELSE end_time
    /\ pc' = "srn_upd"
    /\ UNCHANGED <<nonAcqVars, state, result, exception, upd_callbacks, task_canceller,
                   lastReport, registered, taskVars, now, srn, timerVars, upc,
                   ncancel, cancelRet, cancellerRet, obsVars>>

\* ProgressiveFuture.set_running_or_notify_cancel, the callbacks; then
\* _executeTask returns at once when the future was cancelled
SetRunningUpd ==
    /\ pc = "srn_upd"
    /\ lastReport' = InvokeUpdCallbacks(upd_callbacks, state, start_time, end_time)
    /\ pc' = IF srn THEN "run" ELSE "done"
    /\ UNCHANGED <<nonAcqVars, state, result, exception, start_time, end_time,
                   upd_callbacks, task_canceller, registered, taskVars, now,
                   srn, timerVars, upc, ncancel, cancelRet, cancellerRet, obsVars>>

\* AcquisitionTask.run up to the for loop: total time, timer thread, first
\* set_end_time
RunInit ==
    /\ pc = "run"
    /\ expected_time' = SumTimes(streamTimes, Streams)
    /\ tpc' = "check"
    /\ raw_images' = << >>
    /\ end_time' = now + expected_time'
    /\ pc' = "run_upd"
    /\ UNCHANGED <<nonAcqVars, state, result, exception, start_time, upd_callbacks,
                   task_canceller, lastReport, registered, streams, md_description,
                   current_stream, cancelled, idx, subscribed, is_active, now,
                   srn, tTodo, tReport, upc, ncancel, cancelRet, cancellerRet,
                   obsVars>>

\* the _invoke_upd_callbacks() that ends a set_end_time() of run()
RunUpd ==
    /\ pc \in {"run_upd", "collect_upd"}
    /\ lastReport' = InvokeUpdCallbacks(upd_callbacks, state, start_time, end_time)
    /\ idx' = IF pc = "collect_upd" THEN idx + 1 ELSE idx
    /\ pc' = "loop"
    /\ UNCHANGED <<nonAcqVars, state, result, exception, start_time, end_time,
                   upd_callbacks, task_canceller, registered, streams, md_description,
                   current_stream, cancelled, expected_time, raw_images,
                   subscribed, is_active, now, srn, timerVars, upc, ncancel,
                   cancelRet, cancellerRet, obsVars>>

\* one turn of the for loop up to the wait: subscribe, activate, wait
StartStream ==
    /\ pc = "loop"
    /\ idx <= Len(streams)
    /\ current_stream' = streams[idx]
    /\ subscribed' = [subscribed EXCEPT ![streams[idx]] = TRUE]
    /\ is_active' = [is_active EXCEPT ![streams[idx]] = TRUE]
    /\ pc' = "wait"
    /\ activatedAfterCancel' = (activatedAfterCancel \/ cancelled)
    /\ UNCHANGED <<nonAcqVars, futVars, streams, md_description, cancelled, expected_time, raw_images, idx,
                   now, srn, timerVars, upc, ncancel, cancelRet, cancellerRet,
                   cancelAt, notified>>

\* the stream fails to start: setting is_active raises, run() ends by an
\* exception other than CancelledError
StartStreamFault ==
    /\ pc = "loop"
    /\ idx <= Len(streams)
    /\ current_stream' = streams[idx]
    /\ subscribed' = [subscribed EXCEPT ![streams[idx]] = TRUE]
    /\ pc' = "set_exception"
    /\ UNCHANGED <<nonAcqVars, futVars, streams, md_description, cancelled, expected_time, raw_images, idx,
                   is_active, now, srn, timerVars, upc, ncancel, cancelRet,
                   cancellerRet, obsVars>>

\* end of the for loop: run() returns raw_images
EndLoop ==
    /\ pc = "loop"
    /\ idx > Len(streams)
    /\ pc' = "set_result"
    /\ UNCHANGED <<nonAcqVars, futVars, taskVars, now, srn, timerVars, upc, ncancel, cancelRet,
                   cancellerRet, obsVars>>

\* mutant: the woken thread does not look at the cancel flag
Woken_NoCancelCheck ==
    /\ pc = "woken"
    /\ pc' = "collect"
    /\ UNCHANGED <<nonAcqVars, futVars, taskVars, now, srn, timerVars, upc, ncancel, cancelRet,
                   cancellerRet, obsVars>>

\* the wait returned: raise CancelledError if cancelled (then _executeTask
\* does nothing more), else leave the with block
Woken ==
    /\ pc = "woken"
    /\ pc' = IF cancelled THEN "done" ELSE "collect"
    /\ UNCHANGED <<nonAcqVars, futVars, taskVars, now, srn, timerVars, upc, ncancel, cancelRet,
                   cancellerRet, obsVars>>

\* mutant: the data is added without the name of its stream
Collect_NoDescription ==
    /\ pc = "collect"
    /\ raw_images' = Append(raw_images, current_stream)
    /\ expected_time' = expected_time - streamTimes[current_stream]
    /\ end_time' = now + expected_time'
    /\ pc' = "collect_upd"
    /\ UNCHANGED <<nonAcqVars, state, result, exception, start_time, upd_callbacks,
                   task_canceller, lastReport, registered, streams,
                   md_description, current_stream, cancelled, idx, subscribed,
                   is_active, now, srn, timerVars, upc, ncancel, cancelRet,
                   cancellerRet, obsVars>>

\* mutant: the time left is not updated after a stream
Collect_KeepsEstimate ==
    /\ pc = "collect"
    /\ md_description' = [md_description EXCEPT
                             ![current_stream] = name_value(current_stream)]
    /\ raw_images' = Append(raw_images, current_stream)
    /\ end_time' = now + expected_time
    /\ pc' = "collect_upd"
    /\ UNCHANGED <<nonAcqVars, state, result, exception, start_time, upd_callbacks,
                   task_canceller, lastReport, registered, streams,
                   current_stream, cancelled, expected_time, idx, subscribed,
                   is_active, now, srn, timerVars, upc, ncancel, cancelRet,
                   cancellerRet, obsVars>>

\* add the raw images of the stream, update the time left, set_end_time
Collect ==
    /\ pc = "collect"
    /\ md_description' = [md_description EXCEPT
                             ![current_stream] = name_value(current_stream)]
    /\ raw_images' = Append(raw_images, current_stream)
    /\ expected_time' = expected_time - streamTimes[current_stream]
    /\ end_time' = now + expected_time'
    /\ pc' = "collect_upd"
    /\ UNCHANGED <<nonAcqVars, state, result, exception, start_time, upd_callbacks,
                   task_canceller, lastReport, registered, streams,
                   current_stream, cancelled, idx, subscribed, is_active, now,
                   srn, timerVars, upc, ncancel, cancelRet, cancellerRet, obsVars>>

\* Future.set_result / Future.set_exception (futures backport): store the
\* outcome and set the state to FINISHED, whatever the state was
SetOutcome ==
    /\ pc \in {"set_result", "set_exception"}
    /\ result' = IF pc = "set_result" THEN raw_images ELSE result
    /\ exception' = IF pc = "set_exception" THEN "error" ELSE exception
    /\ state' = FINISHED
    /\ pc' = "fin_time"
    /\ UNCHANGED <<nonAcqVars, start_time, end_time, upd_callbacks, task_canceller,
                   lastReport, registered, taskVars, now, srn, timerVars, upc,
                   ncancel, cancelRet, cancellerRet, obsVars>>

\* ProgressiveFuture.set_result / set_exception: the end time
FinishTime ==
    /\ pc = "fin_time"
    /\ end_time' = now
    /\ pc' = "fin_upd"
    /\ UNCHANGED <<nonAcqVars, state, result, exception, start_time, upd_callbacks,
                   task_canceller, lastReport, registered, taskVars, now, srn,
                   timerVars, upc, ncancel, cancelRet, cancellerRet, obsVars>>

\* ProgressiveFuture.set_result / set_exception: the callbacks
FinishUpd ==
    /\ pc = "fin_upd"
    /\ lastReport' = InvokeUpdCallbacks(upd_callbacks, state, start_time, end_time)
    /\ pc' = "done"
    /\ UNCHANGED <<nonAcqVars, state, result, exception, start_time, end_time,
                   upd_callbacks, task_canceller, registered, taskVars, now,
                   srn, timerVars, upc, ncancel, cancelRet, cancellerRet, obsVars>>

\* ------------------------------------------------------------------------
\* A stream delivers its image: AcquisitionTask._image_listener, called from
\* the thread of the stream.  A stream notifies once per activation, and
\* only while it is subscribed to and active.
\* ------------------------------------------------------------------------
\* mutant: the listener notifies without stopping the stream
ImageListener_NoDeactivate(s) ==
    /\ subscribed[s] /\ is_active[s]
    /\ pc' = IF pc = "wait" THEN "woken" ELSE pc
    /\ notified' = notified \cup {s}
    /\ UNCHANGED <<nonAcqVars, futVars, streams, md_description, current_stream, cancelled, expected_time,
                   raw_images, idx, subscribed, is_active, now, srn, timerVars, upc,
                   ncancel, cancelRet, cancellerRet, cancelAt,
                   activatedAfterCancel>>

ImageListener(s) ==
    /\ subscribed[s] /\ is_active[s]
    /\ subscribed' = [subscribed EXCEPT ![current_stream] = FALSE]
    /\ is_active' = [is_active EXCEPT ![current_stream] = FALSE]
    /\ pc' = IF pc = "wait" THEN "woken" ELSE pc
    /\ notified' = notified \cup {s}
    /\ UNCHANGED <<nonAcqVars, futVars, streams, md_description, current_stream, cancelled, expected_time,
                   raw_images, idx, now, srn, timerVars, upc, ncancel, cancelRet,
                   cancellerRet, cancelAt, activatedAfterCancel>>

\* ------------------------------------------------------------------------
\* A client thread calls future.cancel()
\* ------------------------------------------------------------------------

\* mutant: a finished future is cancelled like a pending one
CancelDecision_FinishedCancels(st, canceller) ==
    IF st \in {CANCELLED, CANCELLED_AND_NOTIFIED} THEN "return_true"
    ELSE IF st = RUNNING /\ canceller = "None" THEN "return_false"
    ELSE IF st = RUNNING THEN "call_canceller"
    ELSE "cancel"

\* mutant: a running future without canceller is cancelled all the same
CancelDecision_NoCancellerCancels(st, canceller) ==
    IF st = FINISHED THEN "return_false"
    ELSE IF st \in {CANCELLED, CANCELLED_AND_NOTIFIED} THEN "return_true"
    ELSE IF st = RUNNING /\ canceller # "None" THEN "call_canceller"
    ELSE "cancel"

\* what ProgressiveFuture.cancel does for a state and a task canceller
CancelDecision(st, canceller) ==
    IF st = FINISHED THEN "return_false"
    ELSE IF st \in {CANCELLED, CANCELLED_AND_NOTIFIED} THEN "return_true"
    ELSE IF st = RUNNING /\ canceller = "None" THEN "return_false"
    ELSE IF st = RUNNING THEN "call_canceller"
    ELSE "cancel"

\* the state ProgressiveFuture.cancel leaves after task_canceller() returned
\* the given value
StateAfterCanceller(ret) == CANCELLED

\* ProgressiveFuture.cancel, the part under the lock of the future; for a
\* running task it calls AcquisitionTask.cancel, which unsubscribes from
\* the current stream, sets the cancel flag, notifies the waiting thread
\* and returns nothing
Cancel ==
    /\ upc = "idle"
    /\ ncancel < MaxCancels
    /\ ncancel' = ncancel + 1
    /\ LET d == CancelDecision(state, task_canceller) IN
       /\ IF d = "call_canceller"
          THEN /\ subscribed' = IF current_stream # NoStream
                                THEN [subscribed EXCEPT ![current_stream] = FALSE]
                                ELSE subscribed
               /\ is_active' = IF current_stream # NoStream
                               THEN [is_active EXCEPT ![current_stream] = FALSE]
                               ELSE is_active
               /\ cancelled' = TRUE
               /\ pc' = IF pc = "wait" THEN "woken" ELSE pc
               /\ cancellerRet' = "None"
               /\ cancelAt' = pc
               /\ state' = StateAfterCanceller("None")
          ELSE /\ UNCHANGED <<nonAcqVars, subscribed, is_active, cancelled, pc,
                              cancellerRet, cancelAt>>
               /\ state' = IF d = "cancel" THEN CANCELLED ELSE state
       /\ upc' = IF state' = CANCELLED /\ d \in {"call_canceller", "cancel"}
                 THEN "cancel_upd" ELSE "idle"
       /\ cancelRet' = IF d = "return_false" THEN "False"
                       ELSE IF d = "return_true" THEN "True"
                       ELSE IF state' = CANCELLED THEN "Pending"
                       ELSE "False"
    /\ UNCHANGED <<nonAcqVars, result, exception, start_time, end_time, upd_callbacks,
                   task_canceller, lastReport, registered, streams, md_description,
                   current_stream, expected_time, raw_images, idx, now, srn,
                   timerVars, notified, activatedAfterCancel>>

\* ProgressiveFuture.cancel, after the lock: the callbacks, then return True
CancelUpd ==
    /\ upc = "cancel_upd"
    /\ lastReport' = InvokeUpdCallbacks(upd_callbacks, state, start_time, end_time)
    /\ cancelRet' = "True"
    /\ upc' = "idle"
    /\ UNCHANGED <<nonAcqVars, state, result, exception, start_time, end_time,
                   upd_callbacks, task_canceller, registered, taskVars, now,
                   pc, srn, timerVars, ncancel, cancellerRet, obsVars>>

\* ------------------------------------------------------------------------
\* The "Acquisition timer update" thread: AcquisitionTask._future_time_upd
\* ------------------------------------------------------------------------
\* mutant: the loop goes on for a cancelled future
TimerCheck_UntilFinished ==
    /\ tpc = "check"
    /\ tpc' = IF state = FINISHED THEN "done" ELSE "upd"
    /\ tTodo' = IF state = FINISHED THEN {} ELSE upd_callbacks
    /\ UNCHANGED <<nonAcqVars, futVars, taskVars, now, pc, srn, tReport, upc,
                   ncancel, cancelRet, cancellerRet, obsVars>>

\* "while not self._future.done()", and the start of the for loop of
\* _invoke_upd_callbacks
TimerCheck ==
    /\ tpc = "check"
    /\ tpc' = IF Done(state) THEN "done" ELSE "upd"
    /\ tTodo' = IF Done(state) THEN {} ELSE upd_callbacks
    /\ UNCHANGED <<nonAcqVars, futVars, taskVars, now, pc, srn, tReport, upc,
                   ncancel, cancelRet, cancellerRet, obsVars>>

\* _report_update for the next callback, the part under the lock of the
\* future: past and left are computed
TimerUpd ==
    /\ tpc = "upd"
    /\ tTodo # {}
    /\ tReport' = ReportUpdate(state, start_time, end_time, now)
    /\ tpc' = "call"
    /\ UNCHANGED <<nonAcqVars, futVars, taskVars, now, pc, srn, tTodo, upc,
                   ncancel, cancelRet, cancellerRet, obsVars>>

\* _report_update, after the lock was released: fn(self, past, left)
TimerCall ==
    /\ tpc = "call"
    /\ LET l == CHOOSE x \in tTodo : \A y \in tTodo : x <= y IN
       /\ lastReport' = [lastReport EXCEPT ![l] = tReport]
       /\ tTodo' = tTodo \ {l}
    /\ tReport' = NoReport
    /\ tpc' = "upd"
    /\ UNCHANGED <<nonAcqVars, state, result, exception, start_time, end_time,
                   upd_callbacks, task_canceller, registered, taskVars, now,
                   pc, srn, upc, ncancel, cancelRet, cancellerRet, obsVars>>

\* the for loop is over: time.sleep(period)
TimerSleep ==
    /\ tpc = "upd"
    /\ tTodo = {}
    /\ tpc' = "check"
    /\ UNCHANGED <<nonAcqVars, futVars, taskVars, now, pc, srn, tTodo, tReport,
                   upc, ncancel, cancelRet, cancellerRet, obsVars>>

\* ------------------------------------------------------------------------
\* A client calls future.add_update_callback(l)
\* ------------------------------------------------------------------------

\* whether add_update_callback stores the callback (else it calls it)
StoresCallback(st) == st \notin {CANCELLED, FINISHED}

AddUpdateCallback(l) ==
    /\ l \notin registered
    /\ registered' = registered \cup {l}
    /\ IF StoresCallback(state)
       THEN /\ upd_callbacks' = upd_callbacks \cup {l}
            /\ UNCHANGED lastReport
       ELSE /\ lastReport' = [lastReport EXCEPT
                                ![l] = ReportUpdate(state, start_time, end_time, now)]
            /\ UNCHANGED upd_callbacks
    /\ UNCHANGED <<nonAcqVars, state, result, exception, start_time, end_time,
                   task_canceller, taskVars, thrVars, obsVars>>

\* time passes
Tick ==
    /\ now < MaxTime * TickLen
    /\ now' = now + TickLen
    /\ UNCHANGED <<nonAcqVars, futVars, taskVars, pc, srn, timerVars, upc, ncancel, cancelRet,
                   cancellerRet, obsVars>>

Next ==
    \/ SetRunningOrNotifyCancel
    \/ SetRunningTimes
    \/ SetRunningUpd
    \/ RunInit
    \/ RunUpd
    \/ StartStream
    \/ StartStreamFault
    \/ EndLoop
    \/ Woken
    \/ Collect
    \/ SetOutcome
    \/ FinishTime
    \/ FinishUpd
    \/ \E s \in Streams : ImageListener(s)
    \/ Cancel
    \/ CancelUpd
    \/ TimerCheck
    \/ TimerUpd
    \/ TimerCall
    \/ TimerSleep
    \/ \E l \in Listeners : AddUpdateCallback(l)
    \/ Tick

Spec == Init /\ [][Next]_vars

\* a step of the "Acquisition timer update" thread
TimerStep ==
    \/ TimerCheck
    \/ TimerUpd
    \/ TimerCall
    \/ TimerSleep

\* a step of the "Acquisition task" thread that needs nothing but the
\* thread being scheduled: the image of a stream is not one
TaskStep ==
    \/ SetRunningOrNotifyCancel
    \/ SetRunningTimes
    \/ SetRunningUpd
    \/ RunInit
    \/ RunUpd
    \/ StartStream
    \/ EndLoop
    \/ Woken
    \/ Collect
    \/ SetOutcome
    \/ FinishTime
    \/ FinishUpd

\* the acquisition with its threads always scheduled again, and a cancel()
\* that was called running to its end
SpecLive ==
    /\ Init
    /\ [][Next]_vars
    /\ WF_tpc(TimerStep)
    /\ WF_pc(TaskStep)
    /\ WF_upc(CancelUpd)

\* ========================================================================
\* ProgressiveFuture driven by an executor and clients, method by method
\* (gui/acqmng.py).  Every call runs to its end before the next one.
\* ========================================================================

\* the values given to set_end_time
TimeValues == {t * TickLen : t \in 0 .. (MaxTime + 1)}

\* mutant: a future cancelled while pending is set running
AfterSetRunning_RunsCancelled(st) ==
    IF st \in {CANCELLED, PENDING} THEN RUNNING ELSE "RuntimeError"

\* Future.set_running_or_notify_cancel (futures backport): the new state,
\* or the RuntimeError raised for a future in another state
AfterSetRunning(st) ==
    IF st = CANCELLED THEN CANCELLED_AND_NOTIFIED
    ELSE IF st = PENDING THEN RUNNING
    ELSE "RuntimeError"

\* ProgressiveFuture.set_running_or_notify_cancel
ApiSetRunningOrNotifyCancel ==
    /\ srnCalls < MaxSrnCalls
    /\ srnCalls' = srnCalls + 1
    /\ LET st2 == AfterSetRunning(state) IN
       IF st2 = "RuntimeError"
       THEN /\ srnRet' = "RuntimeError"
            /\ UNCHANGED <<state, start_time, end_time, lastReport>>
       ELSE /\ srnRet' = IF st2 = RUNNING THEN "True" ELSE "False"
            /\ state' = st2
            /\ start_time' = now
            /\ end_time' = IF st2 = RUNNING THEN now ELSE end_time
            /\ lastReport' = InvokeUpdCallbacks(upd_callbacks, st2, now,
                                                end_time')
    /\ UNCHANGED <<otherVars, camVars, calVars, result, exception, upd_callbacks,
                   task_canceller, registered, taskVars, thrVars, obsVars>>

\* ProgressiveFuture.set_end_time(val)
ApiSetEndTime(val) ==
    /\ end_time' = val
    /\ lastReport' = InvokeUpdCallbacks(upd_callbacks, state, start_time, val)
    /\ UNCHANGED <<otherVars, camVars, calVars, apiVars, state, result, exception,
                   start_time, upd_callbacks, task_canceller, registered,
                   taskVars, thrVars, obsVars>>

\* ProgressiveFuture.set_result / set_exception, called by the executor of
\* a task that was set running, once
ApiSetOutcome(kind) ==
    /\ state = RUNNING \/ (srnCalls >= 1 /\ state = CANCELLED)
    /\ result = NoResult
    /\ exception = NoValue
    /\ result' = IF kind = "result" THEN << >> ELSE result
    /\ exception' = IF kind = "exception" THEN "error" ELSE exception
    /\ state' = FINISHED
    /\ end_time' = now
    /\ lastReport' = InvokeUpdCallbacks(upd_callbacks, FINISHED, start_time, now)
    /\ UNCHANGED <<otherVars, camVars, calVars, apiVars, start_time, upd_callbacks,
                   task_canceller, registered, taskVars, thrVars, obsVars>>

\* ProgressiveFuture.cancel, with a task canceller that only returns a value
ApiCancel ==
    /\ ncancel < MaxCancels
    /\ ncancel' = ncancel + 1
    /\ LET d == CancelDecision(state, task_canceller) IN
       /\ IF d = "call_canceller"
          THEN \E ret \in {"True", "False"} :
                  /\ cancellerRet' = ret
                  /\ state' = StateAfterCanceller(ret)
          ELSE /\ UNCHANGED cancellerRet
               /\ state' = IF d = "cancel" THEN CANCELLED ELSE state
       /\ cancelRet' = IF d \in {"call_canceller", "cancel", "return_true"}
                       THEN "True" ELSE "False"
       /\ lastReport' = IF d \in {"call_canceller", "cancel"}
                        THEN InvokeUpdCallbacks(upd_callbacks, state',
                                                start_time, end_time)
                        ELSE lastReport
    /\ UNCHANGED <<otherVars, camVars, calVars, apiVars, result, exception, start_time,
                   end_time, upd_callbacks, task_canceller, registered,
                   taskVars, now, pc, srn, timerVars, upc, obsVars>>

NextFut ==
    \/ ApiSetRunningOrNotifyCancel
    \/ \E val \in TimeValues : ApiSetEndTime(val)
    \/ \E kind \in {"result", "exception"} : ApiSetOutcome(kind)
    \/ ApiCancel
    \/ \E l \in Listeners : AddUpdateCallback(l)
    \/ Tick

SpecFut == Init /\ [][NextFut]_vars

\* ========================================================================
\* AcquisitionTask.__init__: the order of acquisition (gui/acqmng.py)
\* ========================================================================

\* the classes of stream secom_weight_stream tells apart; "SEM CL" is the
\* SEM stream of that name
StreamKinds == {"FluoStream", "BrightfieldStream", "SEMStream", "SEM CL",
                "ARStream", "Other"}

\* secom_weight_stream
secom_weight_stream(kind) ==
    IF kind = "FluoStream" THEN 100
    ELSE IF kind = "BrightfieldStream" THEN 90
    ELSE IF kind \in {"SEMStream", "SEM CL"}
    THEN IF kind = "SEM CL" THEN 40 ELSE 50
    ELSE IF kind = "ARStream" THEN 40
    ELSE 0

\* the sequences of given length over a set, without repetition
RECURSIVE SeqsNoRep(_, _)
SeqsNoRep(S, n) ==
    IF n = 0 THEN {<< >>}
    ELSE UNION {{Append(q, x) : x \in S \ {q[i] : i \in 1 .. Len(q)}} :
                q \in SeqsNoRep(S, n - 1)}

\* the elements of a sequence
Range(q) == {q[i] : i \in 1 .. Len(q)}

\* one element put in a list sorted by decreasing weight, after the
\* elements that weigh as much or more
InsertByWeight(q, x, w) ==
    LET n == Cardinality({i \in 1 .. Len(q) : w[q[i]] >= w[x]}) IN
    SubSeq(q, 1, n) \o <<x>> \o SubSeq(q, n + 1, Len(q))

\* sorted(keys, key=secom_weight_stream, reverse=True): a stable sort,
\* elements of equal weight stay in the order of keys
RECURSIVE SortedByWeight(_, _)
SortedByWeight(q, w) ==
    IF q = << >> THEN << >>
    ELSE InsertByWeight(SortedByWeight(SubSeq(q, 1, Len(q) - 1), w),
                        q[Len(q)], w)

\* the for loop that fills self._streamTimes: the keys of the dict come in
\* an order that depends on the hash values of the stream objects (their
\* addresses), not on the order of insertion
TaskStreamTimes ==
    /\ opc = "init"
    /\ keysOrder' \in SeqsNoRep(Range(given), Cardinality(Range(given)))
    /\ opc' = "sort"
    /\ UNCHANGED <<nonOrdVars, given, kindOf>>

\* self._streams = sorted(self._streamTimes.keys(), ...)
TaskSort ==
    /\ opc = "sort"
    /\ streams' = SortedByWeight(keysOrder,
                                 [s \in Streams |-> secom_weight_stream(kindOf[s])])
    /\ opc' = "done"
    /\ UNCHANGED <<futVars, md_description, current_stream, cancelled,
                   expected_time, raw_images, idx, subscribed, is_active,
                   thrVars, obsVars, camVars, calVars, apiVars, lleVars,
                   extraVars, estVars, subVars, given, kindOf, keysOrder>>

NextTask ==
    \/ TaskStreamTimes
    \/ TaskSort

\* AcquisitionTask(streams, future) is called with a list of streams
InitTask ==
    /\ InitRun
    /\ task_canceller = "None"
    /\ streams = << >>
    /\ InitCam
    /\ InitCal
    /\ first_insertion = TRUE
    /\ InitApi
    /\ InitLle
    /\ InitSub
    /\ InitPure
    /\ given \in UNION {SeqsNoRep(Streams, n) : n \in 0 .. NumStreams}
    /\ kindOf \in [Streams -> StreamKinds]
    /\ keysOrder = << >>
    /\ opc = "init"

SpecTask == InitTask /\ [][NextTask]_vars

\* ========================================================================
\* LLE: access to the serial port (driver/lle.py)
\* ========================================================================

\* threading.Lock.release(): the lock is unlocked whoever locked it
Released(locked) == FALSE

\* a thread calls the driver: the timer GetTemperature(), the client
\* _updatePower() or _setEmissions(), which end in _updateIntensities()
LleCall(t) ==
    /\ lpc[t] = "idle"
    /\ nLleCalls < MaxLleCalls
    /\ nLleCalls' = nLleCalls + 1
    /\ lop' = [lop EXCEPT ![t] = IF t = "timer" THEN "GetTemperature"
                                 ELSE "_updateIntensities"]
    /\ lleft' = [lleft EXCEPT ![t] = IF t = "timer" THEN 1 ELSE UpdCommands]
    /\ lpc' = [lpc EXCEPT ![t] = "acquire"]
    /\ UNCHANGED <<nonLleVars, ser_access, lio, lstack, nIOFaults, ser_holder,
                   unlockedIO, badRelease>>

\* "with self._ser_access:" of a command, and self._ser_access.acquire()
\* at the end of _tryRecover: the thread waits for the lock and takes it.
\* Back from _tryRecover, _sendCommand writes again and _readResponse
\* returns zeros.
LleAcquire(t) ==
    /\ lpc[t] \in {"acquire", "rec_acquire"}
    /\ ~ser_access
    /\ ser_access' = TRUE
    /\ ser_holder' = t
    /\ lpc' = [lpc EXCEPT ![t] = IF lpc[t] = "acquire" \/ lio[t] = "write"
                                 THEN "write" ELSE "release"]
    /\ UNCHANGED <<nonLleVars, lop, lleft, lio, lstack, nIOFaults, nLleCalls,
                   unlockedIO, badRelease>>

\* _sendCommand: self._serial.write(com) succeeds
LleWrite(t) ==
    /\ lpc[t] = "write"
    /\ unlockedIO' = (unlockedIO \/ ser_holder # t)
    /\ lpc' = [lpc EXCEPT ![t] = IF lop[t] = "GetTemperature" THEN "read"
                                 ELSE "release"]
    /\ UNCHANGED <<nonLleVars, ser_access, lop, lleft, lio, lstack, nIOFaults,
                   nLleCalls, ser_holder, badRelease>>

\* _readResponse: the two bytes are read
LleRead(t) ==
    /\ lpc[t] = "read"
    /\ unlockedIO' = (unlockedIO \/ ser_holder # t)
    /\ lpc' = [lpc EXCEPT ![t] = "release"]
    /\ UNCHANGED <<nonLleVars, ser_access, lop, lleft, lio, lstack, nIOFaults,
                   nLleCalls, ser_holder, badRelease>>

\* the write raises IOError, or the read times out: _tryRecover() is
\* called (self._try_recover is True once __init__ has returned)
LleFault(t) ==
    /\ lpc[t] \in {"write", "read"}
    /\ nIOFaults < MaxIOFaults
    /\ nIOFaults' = nIOFaults + 1
    /\ unlockedIO' = (unlockedIO \/ ser_holder # t)
    /\ lio' = [lio EXCEPT ![t] = lpc[t]]
    /\ lpc' = [lpc EXCEPT ![t] = "rec_open"]
    /\ UNCHANGED <<nonLleVars, ser_access, lop, lleft, lstack, nLleCalls,
                   ser_holder, badRelease>>

\* _tryRecover, one turn of one of its two loops that succeeds: the port
\* is opened and written to, then the device answers
LleRecLoop(t) ==
    /\ lpc[t] \in {"rec_open", "rec_probe"}
    /\ unlockedIO' = (unlockedIO \/ ser_holder # t)
    /\ lpc' = [lpc EXCEPT ![t] = IF lpc[t] = "rec_open" THEN "rec_probe"
                                 ELSE "rec_init"]
    /\ UNCHANGED <<nonLleVars, ser_access, lop, lleft, lio, lstack, nIOFaults,
                   nLleCalls, ser_holder, badRelease>>

\* _tryRecover, one turn of one of its two loops that fails: the IOError
\* is caught, the thread sleeps 2 s and tries again
LleRecLoopFault(t) ==
    /\ lpc[t] \in {"rec_open", "rec_probe"}
    /\ nIOFaults < MaxIOFaults
    /\ nIOFaults' = nIOFaults + 1
    /\ unlockedIO' = (unlockedIO \/ ser_holder # t)
    /\ UNCHANGED <<nonLleVars, ser_access, lpc, lop, lleft, lio, lstack,
                   nLleCalls, ser_holder, badRelease>>

\* _tryRecover, after the loops: the two writes that initialise the device
LleRecInit(t) ==
    /\ lpc[t] = "rec_init"
    /\ unlockedIO' = (unlockedIO \/ ser_holder # t)
    /\ lpc' = [lpc EXCEPT ![t] = "rec_release"]
    /\ UNCHANGED <<nonLleVars, ser_access, lop, lleft, lio, lstack, nIOFaults,
                   nLleCalls, ser_holder, badRelease>>

\* one of these two writes raises IOError: they are in no try block, so
\* the IOError leaves _tryRecover and the method that called it
LleRecInitFault(t) ==
    /\ lpc[t] = "rec_init"
    /\ nIOFaults < MaxIOFaults
    /\ nIOFaults' = nIOFaults + 1
    /\ unlockedIO' = (unlockedIO \/ ser_holder # t)
    /\ lpc' = [lpc EXCEPT ![t] = "raising"]
    /\ UNCHANGED <<nonLleVars, ser_access, lop, lleft, lio, lstack, nLleCalls,
                   ser_holder, badRelease>>

\* _tryRecover: self._ser_access.release()
LleRecRelease(t) ==
    /\ lpc[t] = "rec_release"
    /\ badRelease' = (badRelease \/ ser_holder # t)
    /\ ser_access' = Released(ser_access)
    /\ ser_holder' = NoThread
    /\ lpc' = [lpc EXCEPT ![t] = "rec_update"]
    /\ UNCHANGED <<nonLleVars, lop, lleft, lio, lstack, nIOFaults, nLleCalls,
                   unlockedIO>>

\* _tryRecover: self._updateIntensities(), which sends every command
\* again (self._prev_intensities was reset)
LleRecUpdate(t) ==
    /\ lpc[t] = "rec_update"
    /\ lstack' = [lstack EXCEPT ![t] =
                     Append(@, [op |-> lop[t], left |-> lleft[t], io |-> lio[t]])]
    /\ lop' = [lop EXCEPT ![t] = "_updateIntensities"]
    /\ lleft' = [lleft EXCEPT ![t] = UpdCommands]
    /\ lio' = [lio EXCEPT ![t] = "none"]
    /\ lpc' = [lpc EXCEPT ![t] = "acquire"]
    /\ UNCHANGED <<nonLleVars, ser_access, nIOFaults, nLleCalls, ser_holder,
                   unlockedIO, badRelease>>

\* the end of the with block of a command: the lock is released.  Then
\* _updateIntensities sends its next command; after the last one the
\* method returns, to its caller or to the _tryRecover that called it.
LleRelease(t) ==
    /\ lpc[t] = "release"
    /\ badRelease' = (badRelease \/ ser_holder # t)
    /\ ser_access' = Released(ser_access)
    /\ ser_holder' = NoThread
    /\ IF lleft[t] > 1
       THEN /\ lleft' = [lleft EXCEPT ![t] = @ - 1]
            /\ lpc' = [lpc EXCEPT ![t] = "acquire"]
            /\ UNCHANGED <<lop, lio, lstack>>
       ELSE IF lstack[t] = << >>
       THEN /\ lleft' = [lleft EXCEPT ![t] = 0]
            /\ lop' = [lop EXCEPT ![t] = "none"]
            /\ lpc' = [lpc EXCEPT ![t] = "idle"]
            /\ UNCHANGED <<lio, lstack>>
       ELSE LET fr == lstack[t][Len(lstack[t])] IN
            /\ lstack' = [lstack EXCEPT ![t] = SubSeq(@, 1, Len(@) - 1)]
            /\ lop' = [lop EXCEPT ![t] = fr.op]
            /\ lleft' = [lleft EXCEPT ![t] = fr.left]
            /\ lio' = [lio EXCEPT ![t] = fr.io]
            /\ lpc' = [lpc EXCEPT ![t] = "rec_acquire"]
    /\ UNCHANGED <<nonLleVars, nIOFaults, nLleCalls, unlockedIO>>

\* an IOError goes up through the with block of a command: the lock is
\* released.  The error then leaves the method; when the method is the
\* _updateIntensities called by _tryRecover, it leaves that _tryRecover
\* before its acquire(), and goes up through the with block of the command
\* that had called _tryRecover.
LleRaise(t) ==
    /\ lpc[t] = "raising"
    /\ badRelease' = (badRelease \/ ser_holder # t)
    /\ ser_access' = Released(ser_access)
    /\ ser_holder' = NoThread
    /\ IF lstack[t] = << >>
       THEN /\ lleft' = [lleft EXCEPT ![t] = 0]
            /\ lop' = [lop EXCEPT ![t] = "none"]
            /\ lio' = [lio EXCEPT ![t] = "none"]
            /\ lpc' = [lpc EXCEPT ![t] = "idle"]
            /\ UNCHANGED lstack
       ELSE LET fr == lstack[t][Len(lstack[t])] IN
            /\ lstack' = [lstack EXCEPT ![t] = SubSeq(@, 1, Len(@) - 1)]
            /\ lop' = [lop EXCEPT ![t] = fr.op]
            /\ lleft' = [lleft EXCEPT ![t] = fr.left]
            /\ lio' = [lio EXCEPT ![t] = fr.io]
            /\ lpc' = [lpc EXCEPT ![t] = "raising"]
    /\ UNCHANGED <<nonLleVars, nIOFaults, nLleCalls, unlockedIO>>

NextLle ==
    \E t \in LleThreads :
       \/ LleCall(t)
       \/ LleAcquire(t)
       \/ LleWrite(t)
       \/ LleRead(t)
       \/ LleFault(t)
       \/ LleRecLoop(t)
       \/ LleRecLoopFault(t)
       \/ LleRecInit(t)
       \/ LleRecInitFault(t)
       \/ LleRecRelease(t)
       \/ LleRecUpdate(t)
       \/ LleRelease(t)
       \/ LleRaise(t)

SpecLle == Init /\ [][NextLle]_vars

\* ========================================================================
\* CalculateExtraOffset (acq/align/delphi.py).  Positions and offsets are
\* pairs of integers, rotations are counted in quarter turns.
\* ========================================================================

\* a point turned by a quarter turn, k times
RECURSIVE Rot(_, _)
Rot(p, k) == IF k = 0 THEN p ELSE Rot(<<0 - p[2], p[1]>>, k - 1)

\* transform.CalculateTransform(points_a, points_b): the offset, scaling
\* and rotation of the fit that maps the first list of points onto the
\* second one; here for two points that a rotation and a translation map
\* exactly
CalculateTransform(a, b) ==
    LET k == CHOOSE r \in 0 .. 3 :
                 <<b[2][1] - b[1][1], b[2][2] - b[1][2]>> =
                    Rot(<<a[2][1] - a[1][1], a[2][2] - a[1][2]>>, r)
        ra == Rot(a[1], k)
    IN  [offset |-> <<b[1][1] - ra[1], b[1][2] - ra[2]>>,
         scaling |-> <<1, 1>>,
         rotation |-> k]

\* mutant: the known offset is divided by the scaling, as on the path of a
\* first insertion
CalculateExtraOffset_ScalesOffset(new_first_hole, new_second_hole, expected_first_hole, expected_second_hole, offset, rotation, scaling) ==
    LET fit == CalculateTransform(<<new_first_hole, new_second_hole>>,
                                  <<expected_first_hole, expected_second_hole>>)
        e_offset == <<(fit.offset[1] + offset[1]) \div scaling[1],
                      (fit.offset[2] + offset[2]) \div scaling[2]>>
    IN  [updated_offset |-> e_offset,
         updated_rotation |-> rotation + fit.rotation]

\* CalculateExtraOffset
CalculateExtraOffset(new_first_hole, new_second_hole, expected_first_hole, expected_second_hole, offset, rotation, scaling) ==
    LET fit == CalculateTransform(<<new_first_hole, new_second_hole>>,
                                  <<expected_first_hole, expected_second_hole>>)
        e_offset == <<fit.offset[1] \div scaling[1],
                      fit.offset[2] \div scaling[2]>>
    IN  [updated_offset |-> <<offset[1] + e_offset[1], offset[2] + e_offset[2]>>,
         updated_rotation |-> rotation + fit.rotation]

\* the product of the scalings drawn: shifts are multiples of it, so that
\* the division by a scaling is exact
RECURSIVE ScalingProduct(_)
ScalingProduct(n) == IF n = 0 THEN 1 ELSE n * ScalingProduct(n - 1)

Shifts == {i * ScalingProduct(MaxScaling) : i \in (0 - MaxShift) .. MaxShift}

\* the holes as stored at the calibration (EXPECTED_HOLES, in units of
\* 11 mm), and the holes detected now: the stored ones turned and shifted
known_first_hole == <<0, 1>>
known_second_hole == <<0, 0 - 1>>

ExtraInputs ==
    {[new_first_hole |-> <<Rot(known_first_hole, k)[1] + sx,
                           Rot(known_first_hole, k)[2] + sy>>,
      new_second_hole |-> <<Rot(known_second_hole, k)[1] + sx,
                            Rot(known_second_hole, k)[2] + sy>>,
      expected_first_hole |-> known_first_hole,
      expected_second_hole |-> known_second_hole,
      offset |-> <<ox, oy>>,
      rotation |-> rot,
      scaling |-> <<scx, scy>>] :
        k \in {0, 1}, sx \in Shifts, sy \in {0, ScalingProduct(MaxScaling)},
        ox \in {1}, oy \in {0, 2}, rot \in 0 .. MaxRotation,
        scx \in 1 .. MaxScaling, scy \in 1 .. MaxScaling}

\* _DoUpdateConversion calls CalculateExtraOffset on a re-insertion
ExtraOffsetCall ==
    /\ extraOut = NoExtra
    /\ extraOut' = CalculateExtraOffset(extraIn.new_first_hole,
                                        extraIn.new_second_hole,
                                        extraIn.expected_first_hole,
                                        extraIn.expected_second_hole,
                                        extraIn.offset, extraIn.rotation,
                                        extraIn.scaling)
    /\ UNCHANGED <<nonExtraVars, extraIn>>

NextExtra == ExtraOffsetCall

InitExtra ==
    /\ InitAcq /\ task_canceller = "None"
    /\ InitCam
    /\ InitCal
    /\ first_insertion = FALSE
    /\ InitApi
    /\ InitOrd
    /\ InitLle
    /\ InitSub
    /\ extraIn \in ExtraInputs
    /\ extraOut = NoExtra
    /\ estIn = NoValue
    /\ estOut = NoEstimate

SpecExtra == InitExtra /\ [][NextExtra]_vars

\* ========================================================================
\* The time estimates of the sub-tasks (acq/align/delphi.py).  Distances
\* are whole micrometres, exposure times whole seconds.
\* ========================================================================

\* 2 to the power e
RECURSIVE Pow2(_)
Pow2(e) == IF e = 0 THEN 1 ELSE 2 * Pow2(e - 1)

\* math.log(x) / math.log(2), for x a power of two
RECURSIVE Log2(_)
Log2(x) == IF x <= 1 THEN 0 ELSE 1 + Log2(x \div 2)

\* min(a, b)
Min(a, b) == IF a <= b THEN a ELSE b

\* mutant: the number of steps is not limited to MAX_STEPS
EstimateSteps_NoLimit(dist) ==
    IF dist = NoDist THEN MAX_STEPS ELSE Log2(dist \div ERR_MARGIN)

\* the number of steps the three estimates compute
EstimateSteps(dist) ==
    IF dist = NoDist THEN MAX_STEPS
    ELSE Min(Log2(dist \div ERR_MARGIN), MAX_STEPS)

\* estimateHoleDetectionTime(et, dist)
estimateHoleDetectionTime(et, dist) ==
    [steps |-> EstimateSteps(dist), time |-> EstimateSteps(dist) * (et + 2)]

\* estimateOffsetTime(et, dist)
estimateOffsetTime(et, dist) ==
    [steps |-> EstimateSteps(dist), time |-> EstimateSteps(dist) * (et + 2)]

\* estimateRotationAndScalingTime(et, dist)
estimateRotationAndScalingTime(et, dist) ==
    [steps |-> EstimateSteps(dist), time |-> EstimateSteps(dist) * (et + 2)]

EstimateFunctions == {"estimateHoleDetectionTime", "estimateOffsetTime",
                      "estimateRotationAndScalingTime"}

\* the distances given: none, or a power of two times the error margin
Distances == {NoDist} \cup {Pow2(e) * ERR_MARGIN : e \in 0 .. MaxExp}

\* a sub-task calls its estimate, with the exposure time and the distance
\* left to the hole or spot
EstimateCall ==
    /\ estOut = NoEstimate
    /\ estOut' =
          IF estIn.fn = "estimateHoleDetectionTime"
          THEN estimateHoleDetectionTime(estIn.et, estIn.dist)
          ELSE IF estIn.fn = "estimateOffsetTime"
          THEN estimateOffsetTime(estIn.et, estIn.dist)
          ELSE estimateRotationAndScalingTime(estIn.et, estIn.dist)
    /\ UNCHANGED <<nonEstVars, estIn>>

NextEst == EstimateCall

InitEst ==
    /\ InitAcq /\ task_canceller = "None"
    /\ InitCam
    /\ InitCal
    /\ first_insertion = TRUE
    /\ InitApi
    /\ InitOrd
    /\ InitLle
    /\ InitSub
    /\ extraIn = NoValue
    /\ extraOut = NoExtra
    /\ estIn \in [fn : EstimateFunctions, et : 0 .. MaxEt, dist : Distances]
    /\ estOut = NoEstimate

SpecEst == InitEst /\ [][NextEst]_vars

\* ========================================================================
\* The sub-tasks of the calibration pipeline (acq/align/delphi.py):
\* _DoHoleDetection, _DoAlignAndOffset and _DoRotationAndScaling, each with
\* its canceller.  Positions are pairs (x, y) in micrometres.
\* ========================================================================

Add2(p, q) == <<p[1] + q[1], p[2] + q[2]>>
Sub2(p, q) == <<p[1] - q[1], p[2] - q[2]>>

\* by how much the stage misses the end of a relative move: nothing, 30 um
\* (the margin exactly) or 31 um
StageErrors == {<<0, 0>>, <<18, 24>>, <<0, 31>>}

\* by how much the sample holder is off the expected place
MarkShifts == {<<0, 0>>, <<40, 0>>}

\* the sub-tasks with a centring loop
Centring == {"HoleDetection", "RotationAndScaling"}

\* "dist = math.hypot(*tab)" and "dist <= ERR_MARGIN"
CloseEnough(t) == t[1] * t[1] + t[2] * t[2] <= ERR_MARGIN * ERR_MARGIN

\* mutant: the loop gives up one step later
StepsExhausted_OneMore(n) == n > MAX_STEPS

\* "if steps >= MAX_STEPS: break"
StepsExhausted(n) == n >= MAX_STEPS

\* the positions the loop of a sub-task goes through: EXPECTED_HOLES[hole]
\* as it is at the time of the call, or ROTATION_SPOTS[spots]
Targets(fun) ==
    IF fun = "HoleDetection" THEN EXPECTED_HOLES ELSE ROTATION_SPOTS

\* where the marker (hole or spot) of a position is on the sample holder
MarkerPos(fun, m) ==
    Add2(IF fun = "HoleDetection" THEN ExpectedHolesAtImport[m]
         ELSE ROTATION_SPOTS[m], markAt)

\* the image analysis: the place of the marker relative to the centre of
\* the image, FindHoleCenter / spot.FindSpot times the pixel size
Measure(fun, m) == Sub2(MarkerPos(fun, m), sem_position)

\* HoleDetection(...), AlignAndOffset(...) or RotationAndScaling(...): the
\* future is created with its state RUNNING and the thread is started
SubStart(fun) ==
    /\ spc \in {"idle", "ended"}
    /\ subRuns < MaxSubRuns
    /\ subRuns' = subRuns + 1
    /\ sfun' = fun
    /\ sub_state' = RUNNING
    /\ stateTrail' = <<RUNNING>>
    /\ spc' = IF fun = "HoleDetection" THEN "for" ELSE "begin"
    /\ marker' = 1
    /\ steps' = 0
    /\ tab' = NoTab
    /\ sem_spots' = << >>
    /\ subBody' = "none"
    /\ subOutcome' = "none"
    /\ subResult' = << >>
    /\ subCancelRet' = "NotCalled"
    /\ subCancels' = 0
    /\ relMoves' = 0
    /\ absTargets' = << >>
    /\ recorded' = << >>
    /\ UNCHANGED <<nonSubVars, EXPECTED_HOLES, sem_position, markAt>>

\* the test of the state at the start of the try block of
\* _DoAlignAndOffset and _DoRotationAndScaling
SubBegin ==
    /\ spc = "begin"
    /\ IF sub_state = CANCELLED
       THEN /\ subBody' = "CancelledError"
            /\ spc' = "finally"
       ELSE /\ spc' = IF sfun = "AlignAndOffset" THEN "reference" ELSE "for"
            /\ UNCHANGED subBody
    /\ UNCHANGED <<nonSubVars, EXPECTED_HOLES, sfun, sub_state, marker,
                   steps, tab, sem_position, sem_spots, subOutcome,
                   subResult, subCancelRet, subCancels, subRuns, markAt,
                   relMoves, absTargets, recorded, stateTrail>>

\* _DoAlignAndOffset: both stages have been referenced; the second test of
\* the state
SubReference ==
    /\ spc = "reference"
    /\ IF sub_state = CANCELLED
       THEN /\ subBody' = "CancelledError"
            /\ spc' = "finally"
       ELSE /\ spc' = "spot"
            /\ UNCHANGED subBody
    /\ UNCHANGED <<nonSubVars, EXPECTED_HOLES, sfun, sub_state, marker,
                   steps, tab, sem_position, sem_spots, subOutcome,
                   subResult, subCancelRet, subCancels, subRuns, markAt,
                   relMoves, absTargets, recorded, stateTrail>>

\* _DoAlignAndOffset: spot.AlignSpot(...).result() returns, and the offset
\* is returned, or it raises IOError
SubAlignSpot ==
    /\ spc = "spot"
    /\ \E found \in BOOLEAN :
         /\ subBody' = IF found THEN "result" ELSE "IOError"
         /\ subResult' = IF found THEN <<"offset">> ELSE subResult
    /\ spc' = "finally"
    /\ UNCHANGED <<nonSubVars, EXPECTED_HOLES, sfun, sub_state, marker,
                   steps, tab, sem_position, sem_spots, subOutcome,
                   subCancelRet, subCancels, subRuns, markAt, relMoves,
                   absTargets, recorded, stateTrail>>

\* the head of the for loop over the holes or the spots: after the last
\* one the function returns its result; else the state is tested, the
\* stage is moved to the position (moveAbs) and the centring loop starts
SubFor ==
    /\ spc = "for"
    /\ IF marker > Len(Targets(sfun))
       THEN /\ subBody' = "result"
            /\ subResult' = IF sfun = "HoleDetection"
                            THEN <<EXPECTED_HOLES[1], EXPECTED_HOLES[2]>>
                            ELSE <<"rotation", "scaling">>
            /\ spc' = "finally"
            /\ UNCHANGED <<sem_position, steps, tab, relMoves, absTargets>>
       ELSE IF sub_state = CANCELLED
       THEN /\ subBody' = "CancelledError"
            /\ spc' = "finally"
            /\ UNCHANGED <<subResult, sem_position, steps, tab, relMoves,
                           absTargets>>
       ELSE /\ sem_position' = Targets(sfun)[marker]
            /\ absTargets' = Append(absTargets, Targets(sfun)[marker])
            /\ steps' = 0
            /\ relMoves' = 0
            /\ spc' = "while"
            /\ UNCHANGED <<subBody, subResult, tab>>
    /\ UNCHANGED <<nonSubVars, EXPECTED_HOLES, sfun, sub_state, marker,
                   sem_spots, subOutcome, subCancelRet, subCancels, subRuns,
                   markAt, recorded, stateTrail>>

\* the end of the centring loop of a position: the position of the stage
\* plus the last tab is stored.  In _DoHoleDetection it is stored in
\* holes_found, which is EXPECTED_HOLES itself (holes_found =
\* EXPECTED_HOLES binds a second name to the module-level tuple of dict).
Record(t) ==
    /\ recorded' = Append(recorded, Add2(sem_position, t))
    /\ IF sfun = "HoleDetection"
       THEN /\ EXPECTED_HOLES' =
                 [EXPECTED_HOLES EXCEPT ![marker] = Add2(sem_position, t)]
            /\ UNCHANGED sem_spots
       ELSE /\ sem_spots' = Append(sem_spots, Add2(sem_position, t))
            /\ UNCHANGED EXPECTED_HOLES
    /\ marker' = marker + 1
    /\ spc' = "for"

\* one turn of the centring loop: the test of the state, the test of the
\* steps, then an image is acquired and analysed; the marker is not found
\* (IOError), or it is close enough (break), or the stage is moved by tab
\* (moveRel) and the step counted
SubWhile ==
    /\ spc = "while"
    /\ IF sub_state = CANCELLED
       THEN /\ subBody' = "CancelledError"
            /\ spc' = "finally"
            /\ UNCHANGED <<EXPECTED_HOLES, marker, steps, tab, sem_position,
                           sem_spots, relMoves, recorded>>
       ELSE IF StepsExhausted(steps)
       THEN /\ Record(tab)
            /\ UNCHANGED <<subBody, steps, tab, sem_position, relMoves>>
       ELSE \/ /\ subBody' = "IOError"
               /\ spc' = "finally"
               /\ UNCHANGED <<EXPECTED_HOLES, marker, steps, tab,
                              sem_position, sem_spots, relMoves, recorded>>
            \/ /\ tab' = Measure(sfun, marker)
               /\ IF CloseEnough(tab')
                  THEN /\ Record(tab')
                       /\ UNCHANGED <<subBody, steps, sem_position, relMoves>>
                  ELSE /\ \E e \in StageErrors :
                            sem_position' = Add2(Add2(sem_position, tab'), e)
                       /\ steps' = steps + 1
                       /\ relMoves' = relMoves + 1
                       /\ UNCHANGED <<EXPECTED_HOLES, marker, sem_spots,
                                      subBody, recorded, spc>>
    /\ UNCHANGED <<nonSubVars, sfun, sub_state, subOutcome, subResult,
                   subCancelRet, subCancels, subRuns, markAt, absTargets,
                   stateTrail>>

\* the finally clause of a sub-task, under its lock: a cancelled sub-task
\* raises CancelledError in the place of what the try block returned or
\* raised, else the state becomes FINISHED
SubFinally ==
    /\ spc = "finally"
    /\ IF sub_state = CANCELLED
       THEN /\ subOutcome' = "CancelledError"
            /\ UNCHANGED <<sub_state, stateTrail>>
       ELSE /\ subOutcome' = subBody
            /\ sub_state' = FINISHED
            /\ stateTrail' = Append(stateTrail, FINISHED)
    /\ spc' = "ended"
    /\ UNCHANGED <<nonSubVars, EXPECTED_HOLES, sfun, marker, steps, tab,
                   sem_position, sem_spots, subBody, subResult,
                   subCancelRet, subCancels, subRuns, markAt, relMoves,
                   absTargets, recorded>>

\* mutant: the canceller does not look at the state
SubCanceller_Always(st) == [state |-> CANCELLED, ret |-> "True"]

\* _CancelHoleDetection, _CancelAlignAndOffset, _CancelRotationAndScaling,
\* the part under the lock: the new state and the value returned
SubCanceller(st) ==
    IF st = FINISHED THEN [state |-> st, ret |-> "False"]
    ELSE [state |-> CANCELLED, ret |-> "True"]

\* a call of the canceller of the sub-task
SubCancel ==
    /\ sub_state # "none"
    /\ subCancels < MaxSubCancels
    /\ subCancels' = subCancels + 1
    /\ sub_state' = SubCanceller(sub_state).state
    /\ subCancelRet' = SubCanceller(sub_state).ret
    /\ stateTrail' = IF sub_state' # sub_state
                     THEN Append(stateTrail, sub_state') ELSE stateTrail
    /\ UNCHANGED <<nonSubVars, EXPECTED_HOLES, sfun, spc, marker, steps,
                   tab, sem_position, sem_spots, subBody, subOutcome,
                   subResult, subRuns, markAt, relMoves, absTargets,
                   recorded>>

\* a step of the thread of the sub-task
SubThreadStep ==
    \/ SubBegin
    \/ SubReference
    \/ SubAlignSpot
    \/ SubFor
    \/ SubWhile
    \/ SubFinally

NextSub ==
    \/ \E fun \in SubTasks : SubStart(fun)
    \/ SubBegin
    \/ SubReference
    \/ SubAlignSpot
    \/ SubFor
    \/ SubWhile
    \/ SubFinally
    \/ SubCancel

\* the sub-tasks alone, on a sample holder at its place or off it
InitSubTask ==
    /\ InitAcq /\ task_canceller = "None"
    /\ InitCam
    /\ InitCal
    /\ first_insertion = TRUE
    /\ InitApi
    /\ InitOrd
    /\ InitLle
    /\ InitPure
    /\ InitSubState
    /\ markAt \in MarkShifts

SpecSub == InitSubTask /\ [][NextSub]_vars

\* the same, the thread of the sub-task always scheduled again
SpecSubLive == InitSubTask /\ [][NextSub]_vars /\ WF_vars(SubThreadStep)

\* ========================================================================
\* PVCam: the acquisition flow (driver/pvcam.py)
\* ========================================================================

\* pl_exp_abort(CCS_HALT): an exposure in progress is halted
Aborted(status) == IF status = "in_progress" THEN "not_active" ELSE status

\* mutant: the settings are taken as changed at every iteration
NeedUpdateSettings_Always == TRUE

\* PVCam._need_update_settings
NeedUpdateSettings == settings # prev_settings

\* mutant: the retry bound is reached one fault earlier
TooManyFailures_OneLess(r) == r >= 5

\* the test "retries > 5" of the fault handler
TooManyFailures(r) == r > 5

\* mutant: start_flow neither joins the previous thread nor takes the lock
StartFlow_NoWait ==
    /\ flow = "stopped"
    /\ nflows < MaxFlows
    /\ acquisition_lock' = TRUE
    /\ cpc' = "while"
    /\ retries' = 0
    /\ need_reinit' = TRUE
    /\ cbuffer' = FALSE
    /\ flow' = "started"
    /\ nflows' = nflows + 1
    /\ delivered' = 0
    /\ consec' = 0
    /\ faultsBeforeFrame' = 0
    /\ fatal' = FALSE
    /\ stopReturned' = FALSE
    /\ tdSteps' = {}
    /\ tdFaults' = {}
    /\ releases' = 0
    /\ startVia' = "none"
    /\ UNCHANGED <<nonCamVars, acquire_must_stop, settings, prev_settings,
                   expStatus, camPresent>>

\* PVCam.start_flow: wait_stopped_flow() joins the previous thread when the
\* stop Event is set, then the acquisition lock is taken and the thread
\* started.  (A join that times out makes start_flow raise OSError with
\* nothing changed.)
StartFlow ==
    /\ flow = "stopped"
    /\ nflows < MaxFlows
    /\ acquire_must_stop => cpc \in {"none", "exited"}
    /\ ~acquisition_lock
    /\ acquisition_lock' = TRUE
    /\ cpc' = "while"
    /\ retries' = 0
    /\ need_reinit' = TRUE
    /\ cbuffer' = FALSE
    /\ flow' = "started"
    /\ nflows' = nflows + 1
    /\ delivered' = 0
    /\ consec' = 0
    /\ faultsBeforeFrame' = 0
    /\ fatal' = FALSE
    /\ stopReturned' = FALSE
    /\ tdSteps' = {}
    /\ tdFaults' = {}
    /\ releases' = 0
    /\ startVia' = "none"
    /\ UNCHANGED <<nonCamVars, acquire_must_stop, settings, prev_settings,
                   expStatus, camPresent>>

\* the test of the while loop, and of whether the settings must be committed
AcqWhile ==
    /\ cpc = "while"
    /\ cpc' = IF acquire_must_stop THEN "teardown"
              ELSE IF need_reinit \/ NeedUpdateSettings THEN "settings"
              ELSE "start"
    /\ startVia' = IF cpc' = "start" THEN "armed" ELSE "none"
    /\ UNCHANGED <<nonCamVars, tdVars, retries, need_reinit, cbuffer, acquire_must_stop,
                   acquisition_lock, settings, prev_settings, expStatus,
                   camPresent, flow, nflows, delivered, consec,
                   faultsBeforeFrame, fatal, stopReturned>>

\* settings path, first part: abort an exposure still going on, finish the
\* sequence, and look at the temperature to detect a camera that is gone
AcqSettings ==
    /\ cpc = "settings"
    /\ expStatus' = Aborted(expStatus)
    /\ cpc' = IF camPresent THEN "commit" ELSE "reinit"
    /\ UNCHANGED <<nonCamVars, tdVars, startVia, retries, need_reinit, cbuffer,
                   acquire_must_stop, acquisition_lock, settings, prev_settings, camPresent, flow,
                   nflows, delivered, consec, faultsBeforeFrame, fatal,
                   stopReturned>>

\* PVCam.Reinitialize: returns once the camera has reappeared, with the
\* committed settings forgotten
AcqReinit ==
    /\ cpc = "reinit"
    /\ camPresent
    /\ prev_settings' = NoSettings
    /\ cpc' = "commit"
    /\ UNCHANGED <<nonCamVars, tdVars, startVia, retries, need_reinit, cbuffer,
                   acquire_must_stop, acquisition_lock, settings, expStatus, camPresent, flow,
                   nflows, delivered, consec, faultsBeforeFrame, fatal,
                   stopReturned>>

\* settings path, second part: _update_settings, pl_exp_init_seq,
\* pl_exp_setup_seq, buffer allocation
AcqCommit ==
    /\ cpc = "commit"
    /\ prev_settings' = settings
    /\ cbuffer' = TRUE
    /\ expStatus' = "not_active"
    /\ need_reinit' = FALSE
    /\ cpc' = "start"
    /\ startVia' = "commit"
    /\ UNCHANGED <<nonCamVars, tdVars, retries, acquire_must_stop, acquisition_lock,
                   settings, camPresent, flow, nflows, delivered, consec,
                   faultsBeforeFrame, fatal, stopReturned>>

\* pl_exp_start_seq
AcqStart ==
    /\ cpc = "start"
    /\ expStatus' = "in_progress"
    /\ cpc' = "sleep"
    /\ startVia' = "none"
    /\ UNCHANGED <<nonCamVars, tdVars, retries, need_reinit, cbuffer, acquire_must_stop,
                   acquisition_lock, settings, prev_settings, camPresent, flow,
                   nflows, delivered, consec, faultsBeforeFrame, fatal,
                   stopReturned>>

\* a hardware call of the settings path or pl_exp_start_seq raises
\* PVCamError: caught by the outer except, the loop ends
AcqUnexpectedError ==
    /\ cpc \in {"settings", "reinit", "commit", "start"}
    /\ cpc' = "teardown"
    /\ startVia' = "none"
    /\ UNCHANGED <<nonCamVars, tdVars, retries, need_reinit, cbuffer,
                   acquire_must_stop, acquisition_lock, settings,
                   prev_settings, expStatus, camPresent, flow, nflows,
                   delivered, consec, faultsBeforeFrame, fatal, stopReturned>>

\* acquire_must_stop.wait(duration * 0.8)
AcqSleep ==
    /\ cpc = "sleep"
    /\ cpc' = IF acquire_must_stop THEN "teardown" ELSE "poll"
    /\ UNCHANGED <<nonCamVars, tdVars, startVia, retries, need_reinit, cbuffer,
                   acquire_must_stop, acquisition_lock, settings, prev_settings, expStatus,
                   camPresent, flow, nflows, delivered, consec,
                   faultsBeforeFrame, fatal, stopReturned>>

\* mutant: the handler does not ask for the settings path
AcqFault_NoReinit ==
    /\ consec' = consec + 1
    /\ IF TooManyFailures(retries)
       THEN /\ fatal' = TRUE
            /\ cpc' = "teardown"
            /\ UNCHANGED <<retries, expStatus>>
       ELSE /\ expStatus' = Aborted(expStatus)
            /\ retries' = retries + 1
            /\ cpc' = "while"
            /\ UNCHANGED fatal
    /\ UNCHANGED <<nonCamVars, tdVars, startVia, need_reinit, cbuffer,
                   acquire_must_stop, acquisition_lock, settings,
                   prev_settings, camPresent, flow, nflows, delivered,
                   faultsBeforeFrame, stopReturned>>

\* the handler of IOError / PVCamError of the loop: give up after too many
\* failures, else abort, count the retry and ask for the settings path
AcqFault ==
    /\ consec' = consec + 1
    /\ IF TooManyFailures(retries)
       THEN /\ fatal' = TRUE
            /\ cpc' = "teardown"
            /\ UNCHANGED <<retries, need_reinit, expStatus>>
       ELSE /\ expStatus' = Aborted(expStatus)
            /\ retries' = retries + 1
            /\ need_reinit' = TRUE
            /\ cpc' = "while"
            /\ UNCHANGED fatal
    /\ UNCHANGED <<nonCamVars, tdVars, startVia, cbuffer, acquire_must_stop,
                   acquisition_lock, settings, prev_settings, camPresent, flow, nflows,
                   delivered, faultsBeforeFrame, stopReturned>>

\* the status is in progress and the 1 s of the poll loop are over
AcqPollTimeout ==
    /\ cpc = "poll"
    /\ expStatus = "in_progress"
    /\ AcqFault

\* the status is in progress: acquire_must_stop.wait(0.01), then poll again
AcqPollWait ==
    /\ cpc = "poll"
    /\ expStatus = "in_progress"
    /\ cpc' = IF acquire_must_stop THEN "teardown" ELSE "poll"
    /\ UNCHANGED <<nonCamVars, tdVars, startVia, retries, need_reinit, cbuffer,
                   acquire_must_stop, acquisition_lock, settings, prev_settings, expStatus,
                   camPresent, flow, nflows, delivered, consec,
                   faultsBeforeFrame, fatal, stopReturned>>

\* the status is neither in progress nor READOUT_COMPLETE
AcqPollUnexpected ==
    /\ cpc = "poll"
    /\ expStatus \in {"not_active", "failed"}
    /\ AcqFault

\* the status is READOUT_COMPLETE: the loop goes on to the delivery
AcqPollComplete ==
    /\ cpc = "poll"
    /\ expStatus = "complete"
    /\ cpc' = "deliver"
    /\ UNCHANGED <<nonCamVars, tdVars, startVia, retries, need_reinit, cbuffer,
                   acquire_must_stop, acquisition_lock, settings, prev_settings, expStatus,
                   camPresent, flow, nflows, delivered, consec,
                   faultsBeforeFrame, fatal, stopReturned>>

\* mutant: the retry counter is not reset by a frame
AcqDeliver_NoReset ==
    /\ cpc = "deliver"
    /\ delivered' = delivered + 1
    /\ faultsBeforeFrame' = consec
    /\ consec' = 0
    /\ cpc' = "while"
    /\ UNCHANGED <<nonCamVars, tdVars, startVia, retries, need_reinit, cbuffer,
                   acquire_must_stop, acquisition_lock, settings, prev_settings, expStatus,
                   camPresent, flow, nflows, fatal, stopReturned>>

\* _buffer_as_array, retries = 0, callback(array)
AcqDeliver ==
    /\ cpc = "deliver"
    /\ retries' = 0
    /\ delivered' = delivered + 1
    /\ faultsBeforeFrame' = consec
    /\ consec' = 0
    /\ cpc' = "while"
    /\ UNCHANGED <<nonCamVars, tdVars, startVia, need_reinit, cbuffer,
                   acquire_must_stop, acquisition_lock, settings, prev_settings, expStatus,
                   camPresent, flow, nflows, fatal, stopReturned>>

\* mutant: a fault of the abort ends the thread, the rest of the finally
\* clause is skipped
AcqTeardown_FaultEscapes ==
    /\ cpc = "teardown"
    /\ tdSteps' = tdSteps \cup {"abort"}
    /\ \E fault \in BOOLEAN :
         /\ expStatus' = IF fault THEN expStatus ELSE Aborted(expStatus)
         /\ tdFaults' = IF fault THEN tdFaults \cup {"abort"} ELSE tdFaults
         /\ cpc' = IF fault THEN "exited" ELSE "td_finish"
    /\ UNCHANGED <<nonCamVars, startVia, retries, need_reinit, cbuffer, acquire_must_stop,
                   acquisition_lock, settings, prev_settings, camPresent, flow,
                   nflows, delivered, consec, faultsBeforeFrame, fatal,
                   stopReturned, releases>>

\* the finally clause, first try: abort an exposure in progress; a
\* PVCamError of exp_check_status or pl_exp_abort is logged
AcqTeardown ==
    /\ cpc = "teardown"
    /\ tdSteps' = tdSteps \cup {"abort"}
    /\ \E fault \in BOOLEAN :
         /\ expStatus' = IF fault THEN expStatus ELSE Aborted(expStatus)
         /\ tdFaults' = IF fault THEN tdFaults \cup {"abort"} ELSE tdFaults
    /\ cpc' = "td_finish"
    /\ UNCHANGED <<nonCamVars, startVia, retries, need_reinit, cbuffer, acquire_must_stop,
                   acquisition_lock, settings, prev_settings, camPresent, flow,
                   nflows, delivered, consec, faultsBeforeFrame, fatal,
                   stopReturned, releases>>

\* the finally clause, second try: pl_exp_finish_seq if a sequence was set
\* up; a PVCamError is logged
AcqFinishSeq ==
    /\ cpc = "td_finish"
    /\ IF cbuffer
       THEN /\ tdSteps' = tdSteps \cup {"finish"}
            /\ \E fault \in BOOLEAN :
                 tdFaults' = IF fault THEN tdFaults \cup {"finish"} ELSE tdFaults
       ELSE UNCHANGED <<tdSteps, tdFaults>>
    /\ cpc' = "td_uninit"
    /\ UNCHANGED <<nonCamVars, startVia, retries, need_reinit, cbuffer, acquire_must_stop,
                   acquisition_lock, settings, prev_settings, expStatus,
                   camPresent, flow, nflows, delivered, consec,
                   faultsBeforeFrame, fatal, stopReturned, releases>>

\* the finally clause, third try: pl_exp_uninit_seq; a PVCamError is logged
AcqUninitSeq ==
    /\ cpc = "td_uninit"
    /\ tdSteps' = tdSteps \cup {"uninit"}
    /\ \E fault \in BOOLEAN :
         tdFaults' = IF fault THEN tdFaults \cup {"uninit"} ELSE tdFaults
    /\ cpc' = "release"
    /\ UNCHANGED <<nonCamVars, startVia, retries, need_reinit, cbuffer, acquire_must_stop,
                   acquisition_lock, settings, prev_settings, expStatus,
                   camPresent, flow, nflows, delivered, consec,
                   faultsBeforeFrame, fatal, stopReturned, releases>>

\* mutant: the thread goes on to its end with the lock kept
AcqRelease_KeepsLock ==
    /\ cpc = "release"
    /\ cpc' = "clear"
    /\ UNCHANGED <<nonCamVars, tdVars, startVia, retries, need_reinit,
                   cbuffer, acquire_must_stop, acquisition_lock, settings,
                   prev_settings, expStatus, camPresent, flow, nflows,
                   delivered, consec, faultsBeforeFrame, fatal, stopReturned>>

\* acquisition_lock.release()
AcqRelease ==
    /\ cpc = "release"
    /\ acquisition_lock' = FALSE
    /\ releases' = releases + 1
    /\ tdSteps' = tdSteps \cup {"release"}
    /\ cpc' = "clear"
    /\ UNCHANGED <<nonCamVars, startVia, retries, need_reinit, cbuffer, acquire_must_stop,
                   settings, prev_settings, expStatus, camPresent, flow,
                   nflows, delivered, consec, faultsBeforeFrame, fatal,
                   stopReturned, tdFaults>>

\* acquire_must_stop.clear(), and the thread ends
AcqClear ==
    /\ cpc = "clear"
    /\ acquire_must_stop' = FALSE
    /\ tdSteps' = tdSteps \cup {"clear"}
    /\ cpc' = "exited"
    /\ UNCHANGED <<nonCamVars, startVia, retries, need_reinit, cbuffer, acquisition_lock,
                   settings, prev_settings, expStatus, camPresent, flow,
                   nflows, delivered, consec, faultsBeforeFrame, fatal,
                   stopReturned, tdFaults, releases>>

\* PVCam.req_stop_flow, first part: the assert and acquire_must_stop.set();
\* when the Event is already set the assert fails and nothing is done
ReqStopFlow ==
    /\ flow = "started"
    /\ IF acquire_must_stop
       THEN /\ flow' = "stopped"
            /\ UNCHANGED acquire_must_stop
       ELSE /\ acquire_must_stop' = TRUE
            /\ flow' = "stopping"
    /\ UNCHANGED <<nonCamVars, tdVars, startVia, cpc, retries, need_reinit,
                   cbuffer, acquisition_lock, settings, prev_settings, expStatus,
                   camPresent, nflows, delivered, consec, faultsBeforeFrame,
                   fatal, stopReturned>>

\* PVCam.req_stop_flow, second part: pl_exp_abort, and return
ReqStopAbort ==
    /\ flow = "stopping"
    /\ expStatus' = Aborted(expStatus)
    /\ stopReturned' = TRUE
    /\ flow' = "stopped"
    /\ UNCHANGED <<nonCamVars, tdVars, startVia, cpc, retries, need_reinit,
                   cbuffer, acquire_must_stop, acquisition_lock, settings,
                   prev_settings, camPresent, nflows, delivered, consec,
                   faultsBeforeFrame, fatal>>

\* a client changes a setting of the camera (exposure time, binning, ...)
ChangeSettings ==
    /\ \E v \in Settings : v # settings /\ settings' = v
    /\ UNCHANGED <<nonCamVars, tdVars, startVia, cpc, retries, need_reinit,
                   cbuffer, acquire_must_stop, acquisition_lock, prev_settings,
                   expStatus, camPresent, flow, nflows, delivered, consec,
                   faultsBeforeFrame, fatal, stopReturned>>

\* the camera: the exposure ends with a frame read out.  The number of
\* frames of a flow is bounded by MaxFrames.
ExposureCompletes ==
    /\ expStatus = "in_progress"
    /\ delivered < MaxFrames
    /\ expStatus' = "complete"
    /\ UNCHANGED <<nonCamVars, tdVars, startVia, cpc, retries, need_reinit,
                   cbuffer, acquire_must_stop, acquisition_lock, settings,
                   prev_settings, camPresent, flow, nflows, delivered, consec,
                   faultsBeforeFrame, fatal, stopReturned>>

\* the camera: the exposure ends with READOUT_FAILED
ExposureFails ==
    /\ expStatus = "in_progress"
    /\ expStatus' = "failed"
    /\ UNCHANGED <<nonCamVars, tdVars, startVia, cpc, retries, need_reinit,
                   cbuffer, acquire_must_stop, acquisition_lock, settings,
                   prev_settings, camPresent, flow, nflows, delivered, consec,
                   faultsBeforeFrame, fatal, stopReturned>>

\* the camera is switched off, or on again
CameraSwitched ==
    /\ camPresent' = ~camPresent
    /\ UNCHANGED <<nonCamVars, tdVars, startVia, cpc, retries, need_reinit,
                   cbuffer, acquire_must_stop, acquisition_lock, settings,
                   prev_settings, expStatus, flow, nflows, delivered, consec,
                   faultsBeforeFrame, fatal, stopReturned>>

NextCam ==
    \/ StartFlow
    \/ AcqWhile
    \/ AcqSettings
    \/ AcqReinit
    \/ AcqCommit
    \/ AcqStart
    \/ AcqUnexpectedError
    \/ AcqSleep
    \/ AcqPollTimeout
    \/ AcqPollWait
    \/ AcqPollUnexpected
    \/ AcqPollComplete
    \/ AcqDeliver
    \/ AcqTeardown
    \/ AcqFinishSeq
    \/ AcqUninitSeq
    \/ AcqRelease
    \/ AcqClear
    \/ ReqStopFlow
    \/ ReqStopAbort
    \/ ChangeSettings
    \/ ExposureCompletes
    \/ ExposureFails
    \/ CameraSwitched

\* the camera alone: the acquisition manager stays as constructed
InitCamFlow == Init /\ task_canceller = "None"

SpecCam == InitCamFlow /\ [][NextCam]_vars

\* a step of the "PVCam acquire flow thread" that is taken whenever the
\* thread is scheduled and its calls return: the hardware faults are left
\* out, and so is the camera reappearing
AcqThreadStep ==
    \/ AcqWhile
    \/ AcqSettings
    \/ AcqReinit
    \/ AcqCommit
    \/ AcqStart
    \/ AcqSleep
    \/ AcqPollTimeout
    \/ AcqPollWait
    \/ AcqPollUnexpected
    \/ AcqPollComplete
    \/ AcqDeliver
    \/ AcqTeardown
    \/ AcqFinishSeq
    \/ AcqUninitSeq
    \/ AcqRelease
    \/ AcqClear

\* the camera as constructed, followed over one flow: the count of
\* start_flow() calls starts one below its bound
InitCamOneFlow ==
    /\ InitAcq
    /\ task_canceller = "None"
    /\ InitCamState
    /\ nflows = MaxFlows - 1
    /\ InitCal
    /\ first_insertion = TRUE
    /\ InitApi
    /\ InitOrd
    /\ InitLle
    /\ InitSub
    /\ InitPure

\* one flow of the camera, its acquisition thread always scheduled again
SpecCamLive == InitCamOneFlow /\ [][NextCam]_vars /\ WF_vars(AcqThreadStep)

\* ========================================================================
\* Calibration pipeline: UpdateConversion (acq/align/delphi.py)
\*
\* A sub-task (HoleDetection, AlignAndOffset, RotationAndScaling) is a
\* future with a thread of its own.  Its future is "instantaneous" (the
\* InstantaneousFuture put there by UpdateConversion), "running", or done:
\* "result", "IOError" (detection fault) or "cancelled".
\* ========================================================================

\* Future.done() of a sub-task future
SubDone(f) == f \in {"result", "IOError", "cancelled"}

\* the test "if future._conversion_update_state == CANCELLED: raise
\* CancelledError()": where the thread goes on
CheckCancelled(st, goesOn) == IF st = CANCELLED THEN "finally" ELSE goesOn

\* mutant: re-insertion is calibrated like a first insertion
AfterHoleDetection_AlwaysFirst(fi) == "check"

\* mutant: the correction is computed and applied for a first insertion too
AfterHoleDetection_AlwaysExtra(fi) == "check_extra"

\* "if first_insertion == True": the step after hole detection
AfterHoleDetection(fi) == IF fi THEN "check" ELSE "check_extra"

\* mutant: an IOError of a sub-task is taken as a result
AfterResult_IgnoresFault(f) ==
    IF f = "cancelled" THEN "CancelledError" ELSE "none"

\* what future.result() of a sub-task raises in _DoUpdateConversion
AfterResult(f) ==
    IF f = "IOError" THEN "IOError"
    ELSE IF f = "cancelled" THEN "CancelledError"
    ELSE "none"

\* _DoUpdateConversion, the first test of the state
ConvBegin ==
    /\ kpc = "begin"
    /\ kpc' = CheckCancelled(conversion_update_state, "start")
    /\ convBody' = IF conversion_update_state = CANCELLED
                   THEN "CancelledError" ELSE convBody
    /\ UNCHANGED <<nonCalVars, first_insertion, conversion_update_state,
                   conv_done, ksub, convOutcome, subFut, subThread, xpc,
                   convCancels, convCancelRet, started, cancelledSubs,
                   metadataUpdated, doneAtReturn>>

\* the sub-task is created and its thread started: HoleDetection(...),
\* AlignAndOffset(...) or RotationAndScaling(...)
ConvStartSub ==
    /\ kpc = "start"
    /\ subFut' = [subFut EXCEPT ![SubOrder[ksub]] = "running"]
    /\ subThread' = [subThread EXCEPT ![SubOrder[ksub]] = "running"]
    /\ started' = Append(started, SubOrder[ksub])
    /\ kpc' = "wait"
    /\ UNCHANGED <<nonCalVars, first_insertion, conversion_update_state,
                   conv_done, ksub, convBody, convOutcome, xpc, convCancels,
                   convCancelRet, cancelledSubs, metadataUpdated,
                   doneAtReturn>>

\* future.result() of the sub-task returns or raises; after the last
\* sub-task the function returns the calibration
ConvWaitSub ==
    /\ kpc = "wait"
    /\ SubDone(subFut[SubOrder[ksub]])
    /\ LET raised == AfterResult(subFut[SubOrder[ksub]]) IN
       IF raised # "none"
       THEN /\ convBody' = raised
            /\ kpc' = "finally"
            /\ UNCHANGED ksub
       ELSE IF ksub = Len(SubOrder)
       THEN /\ convBody' = "result"
            /\ kpc' = "finally"
            /\ UNCHANGED ksub
       ELSE /\ kpc' = IF ksub = 1 THEN AfterHoleDetection(first_insertion)
                      ELSE "check"
            /\ ksub' = ksub + 1
            /\ UNCHANGED convBody
    /\ UNCHANGED <<nonCalVars, first_insertion, conversion_update_state,
                   conv_done, convOutcome, subFut, subThread, xpc,
                   convCancels, convCancelRet, started, cancelledSubs,
                   metadataUpdated, doneAtReturn>>

\* the test of the state before the next sub-task or before the extra
\* offset; the thread then updates the end time of the future
ConvCheck ==
    /\ kpc \in {"check", "check_extra"}
    /\ kpc' = CheckCancelled(conversion_update_state,
                             IF kpc = "check" THEN "start" ELSE "extra")
    /\ convBody' = IF conversion_update_state = CANCELLED
                   THEN "CancelledError" ELSE convBody
    /\ UNCHANGED <<nonCalVars, first_insertion, conversion_update_state,
                   conv_done, ksub, convOutcome, subFut, subThread, xpc,
                   convCancels, convCancelRet, started, cancelledSubs,
                   metadataUpdated, doneAtReturn>>

\* re-insertion: CalculateExtraOffset, the metadata of the combined stage
\* are updated, and the function returns
ConvExtraOffset ==
    /\ kpc = "extra"
    /\ metadataUpdated' = TRUE
    /\ convBody' = "result"
    /\ kpc' = "finally"
    /\ UNCHANGED <<nonCalVars, first_insertion, conversion_update_state,
                   conv_done, ksub, convOutcome, subFut, subThread, xpc,
                   convCancels, convCancelRet, started, cancelledSubs,
                   doneAtReturn>>

\* the finally clause, under future._conversion_lock: _done is set, and a
\* cancelled pipeline raises CancelledError in the place of what the try
\* block returned or raised
ConvFinally ==
    /\ kpc = "finally"
    /\ conv_done' = TRUE
    /\ IF conversion_update_state = CANCELLED
       THEN /\ convOutcome' = "CancelledError"
            /\ UNCHANGED conversion_update_state
       ELSE /\ convOutcome' = convBody
            /\ conversion_update_state' = FINISHED
    /\ kpc' = "ended"
    /\ UNCHANGED <<nonCalVars, first_insertion, ksub, convBody, subFut,
                   subThread, xpc, convCancels, convCancelRet, started,
                   cancelledSubs, metadataUpdated, doneAtReturn>>

\* ---- the thread of a sub-task ----

\* the sub-task returns its result (executeTask stores it in the future)
SubSucceeds(k) ==
    /\ subThread[k] = "running"
    /\ subFut[k] = "running"
    /\ subFut' = [subFut EXCEPT ![k] = "result"]
    /\ subThread' = [subThread EXCEPT ![k] = "ended"]
    /\ UNCHANGED <<nonCalVars, first_insertion, conversion_update_state,
                   conv_done, kpc, ksub, convBody, convOutcome, xpc,
                   convCancels, convCancelRet, started, cancelledSubs,
                   metadataUpdated, doneAtReturn>>

\* the sub-task does not find its hole or spot: raise IOError(...)
SubDetectionFault(k) ==
    /\ subThread[k] = "running"
    /\ subFut[k] = "running"
    /\ subFut' = [subFut EXCEPT ![k] = "IOError"]
    /\ subThread' = [subThread EXCEPT ![k] = "ended"]
    /\ UNCHANGED <<nonCalVars, first_insertion, conversion_update_state,
                   conv_done, kpc, ksub, convBody, convOutcome, xpc,
                   convCancels, convCancelRet, started, cancelledSubs,
                   metadataUpdated, doneAtReturn>>

\* the cancelled sub-task finds its state CANCELLED at one of its tests or
\* in its finally clause and raises CancelledError
SubCancelledEnds(k) ==
    /\ subThread[k] = "running"
    /\ subFut[k] = "cancelled"
    /\ subThread' = [subThread EXCEPT ![k] = "ended"]
    /\ UNCHANGED <<nonCalVars, first_insertion, conversion_update_state,
                   conv_done, kpc, ksub, convBody, convOutcome, subFut, xpc,
                   convCancels, convCancelRet, started, cancelledSubs,
                   metadataUpdated, doneAtReturn>>

\* ---- the canceller: _CancelUpdateConversion ----

\* cancel() of a sub-task future: a running sub-task is cancelled by its
\* canceller (which sets its state to CANCELLED and returns True); on an
\* InstantaneousFuture and on a done future nothing happens
CancelSub(f) == IF f = "running" THEN "cancelled" ELSE f

\* mutant: the canceller reports whether the completion signal arrived
CancelWaitResult_ReportsSignal(done) == IF done THEN "True" ELSE "False"

\* "future._done.wait(10); return True"
CancelWaitResult(done) == "True"

\* the part under future._conversion_lock
CancelUpdateConversion ==
    /\ xpc = "idle"
    /\ convCancels < MaxConvCancels
    /\ convCancels' = convCancels + 1
    /\ IF conversion_update_state = FINISHED
       THEN /\ convCancelRet' = "False"
            /\ cancelledSubs' = {}
            /\ UNCHANGED <<conversion_update_state, subFut, xpc>>
       ELSE /\ conversion_update_state' = CANCELLED
            /\ subFut' = [k \in SubTasks |-> CancelSub(subFut[k])]
            /\ cancelledSubs' = SubTasks
            /\ convCancelRet' = "Pending"
            /\ xpc' = "wait"
    /\ UNCHANGED <<nonCalVars, first_insertion, conv_done, kpc, ksub,
                   convBody, convOutcome, subThread, started,
                   metadataUpdated, doneAtReturn>>

\* the wait for _done has ended, by the signal or by the 10 s, and the
\* canceller returns
CancelUpdateConversionReturn ==
    /\ xpc = "wait"
    /\ convCancelRet' = CancelWaitResult(conv_done)
    /\ doneAtReturn' = conv_done
    /\ xpc' = "idle"
    /\ UNCHANGED <<nonCalVars, first_insertion, conversion_update_state,
                   conv_done, kpc, ksub, convBody, convOutcome, subFut,
                   subThread, convCancels, started, cancelledSubs,
                   metadataUpdated>>

NextCal ==
    \/ ConvBegin
    \/ ConvStartSub
    \/ ConvWaitSub
    \/ ConvCheck
    \/ ConvExtraOffset
    \/ ConvFinally
    \/ \E k \in SubTasks : SubSucceeds(k)
    \/ \E k \in SubTasks : SubDetectionFault(k)
    \/ \E k \in SubTasks : SubCancelledEnds(k)
    \/ CancelUpdateConversion
    \/ CancelUpdateConversionReturn

\* the pipeline alone, for a first insertion and for a re-insertion
InitConversion ==
    /\ InitAcq /\ task_canceller = "None"
    /\ InitOrd
    /\ InitLle
    /\ InitSub
    /\ InitPure
    /\ InitCam
    /\ InitCal
    /\ first_insertion \in BOOLEAN
    /\ InitApi

SpecCal == InitConversion /\ [][NextCal]_vars

\* ---- the pipeline and one sub-task, each taken from its start ----

\* UpdateConversion has just returned its future: the "Conversion update"
\* thread is at its first line and no canceller was called
PipelineAtStart ==
    /\ kpc = "begin"
    /\ xpc = "idle"
    /\ convCancels = 0

\* no sub-task function was called yet
SubAtStart ==
    /\ spc = "idle"
    /\ subRuns = 0

\* the pipeline, its sub-tasks seen as futures, or a sub-task seen with the
\* steps of its thread
NextTasks ==
    \/ SubAtStart /\ NextCal
    \/ PipelineAtStart /\ NextSub

InitTasks ==
    /\ InitAcq /\ task_canceller = "None"
    /\ InitCam
    /\ InitCal
    /\ InitApi
    /\ InitOrd
    /\ InitLle
    /\ InitPure
    /\ InitSubState
    /\ \/ first_insertion \in BOOLEAN /\ markAt = <<0, 0>>
       \/ first_insertion = TRUE /\ markAt \in MarkShifts

SpecTasks == InitTasks /\ [][NextTasks]_vars

\* ========================================================================
\* Properties
\* ========================================================================
Cancelled(st) == st \in {CANCELLED, CANCELLED_AND_NOTIFIED}

\* a step that is a call of future.cancel()
CancelCall == ncancel' # ncancel

\* C1 (as stated): a future terminates once: in a terminal state no step
\* changes the state (Cancelled stays Cancelled, Finished stays Finished)
\* nor the stored result or exception.
C1_TerminatesOnce ==
    [][Done(state) =>
         /\ Cancelled(state') = Cancelled(state)
         /\ (state' = FINISHED) = (state = FINISHED)
         /\ result' = result
         /\ exception' = exception]_vars

\* C2: when the task canceller ran while the task thread was in its wait on
\* a stream, the future is Cancelled, the thread ends without collecting,
\* and neither a result nor an exception is ever stored.
C2_CancelWhileWaiting ==
    cancelAt \in {"wait", "woken"} =>
        /\ Cancelled(state)
        /\ result = NoResult
        /\ exception = NoValue
        /\ pc \in {"woken", "done"}

\* C2 witness: cancelled in the wait on the second stream, with the data of
\* the first already collected, and the thread has ended.
C2_Witness ==
    /\ cancelAt = "wait"
    /\ Len(raw_images) >= 1
    /\ pc = "done"
    /\ upc = "idle"

\* C3: cancel() on a finished future returns False, does not call the task
\* canceller and changes neither the state nor the result or exception.
C3_CancelFinished ==
    [][(CancelCall /\ state = FINISHED) =>
         /\ cancelRet' = "False"
         /\ upc' = "idle"
         /\ state' = FINISHED
         /\ result' = result
         /\ exception' = exception
         /\ cancellerRet' = cancellerRet
         /\ cancelled' = cancelled
         /\ lastReport' = lastReport]_vars

\* C3 witness: cancel() has returned False on a finished future that has a
\* task canceller and a result.
C3_Witness ==
    /\ task_canceller # "None"
    /\ state = FINISHED
    /\ result # NoResult
    /\ cancelRet = "False"
    /\ cancellerRet = "NotCalled"

\* C4: cancel() on a running future without task canceller returns False
\* and leaves the future running, with no callback called.
C4_CancelRunningNoCanceller ==
    [][(CancelCall /\ state = RUNNING /\ task_canceller = "None") =>
         /\ cancelRet' = "False"
         /\ upc' = "idle"
         /\ state' = RUNNING
         /\ lastReport' = lastReport
         /\ cancelled' = cancelled]_vars

\* C4 witness: cancel() has returned False on a running future without
\* canceller, which has a listener.
C4_Witness ==
    /\ task_canceller = "None"
    /\ state = RUNNING
    /\ cancelRet = "False"
    /\ upd_callbacks # {}

\* C5 (as stated): cancel() on a running future with a canceller makes the
\* future Cancelled if and only if the canceller reported success.
C5_CancelledIffCancellerSucceeds ==
    [][(CancelCall /\ state = RUNNING /\ task_canceller # "None") =>
         ((state' = CANCELLED) <=> (cancellerRet' = "True"))]_vars

\* C6 (as stated): once the task canceller has returned, the task thread
\* has stopped working.
C6_CancellerWaitsForTask ==
    cancellerRet # "NotCalled" => pc = "done"

\* C7: at most one stream is subscribed to or active, and a stream is so
\* only after every stream before it in the order has notified and has
\* been unsubscribed from and deactivated.
C7_OneSourceAtATime ==
    /\ Cardinality({s \in Streams : is_active[s] \/ subscribed[s]}) <= 1
    /\ \A k \in 1 .. Len(streams) :
         (is_active[streams[k]] \/ subscribed[streams[k]]) =>
            \A j \in 1 .. (k - 1) :
               /\ streams[j] \in notified
               /\ ~is_active[streams[j]]
               /\ ~subscribed[streams[j]]

\* C7 witness: the second stream of the order is active.
C7_Witness ==
    /\ Len(streams) >= 2
    /\ is_active[streams[2]]
    /\ subscribed[streams[2]]

\* the acquisition thread has left the loop
LoopLeft ==
    cpc \in {"teardown", "td_finish", "td_uninit", "release", "clear", "exited"}

\* C8 (as stated): six consecutive transient faults with no frame in
\* between end the loop by a fatal error.
C8_SixFaultsFatal ==
    consec >= 6 => (fatal /\ LoopLeft)

\* C8 (amended): the loop ends by a fatal error at the seventh consecutive
\* transient fault and not before (six faults are all retried); once it has,
\* the thread has left the loop and the callback is not called any more.
C8_SevenFaultsFatal ==
    /\ [](/\ fatal <=> consec >= 7
          /\ consec <= 7
          /\ fatal => LoopLeft)
    /\ [][fatal => delivered' <= delivered]_vars

\* C8 witness: seven consecutive faults, the loop has ended by the fatal
\* error and the thread has exited.
C8_Witness ==
    /\ fatal
    /\ consec = 7
    /\ cpc = "exited"

\* C9: the retry counter counts the transient faults since the last frame:
\* a frame obtained after k faults is delivered and leaves the counter at
\* 0, and within a flow the counter returns to 0 only by a delivered frame.
C9_RetriesResetBySuccess ==
    /\ [](retries = IF fatal THEN consec - 1 ELSE consec)
    /\ [][(cpc = "deliver" /\ cpc' # "deliver") =>
            /\ delivered' = delivered + 1
            /\ retries' = 0
            /\ cpc' = "while"]_vars
    /\ [][(retries # 0 /\ retries' = 0 /\ nflows' = nflows) =>
            delivered' = delivered + 1]_vars

\* C9 witness: a frame was delivered after three consecutive faults, and a
\* later fault is counted as the first.
C9_Witness ==
    /\ faultsBeforeFrame = 3
    /\ delivered >= 1
    /\ retries = 1
    /\ consec = 1

\* C10 (as stated): once req_stop_flow() has returned, the callback is not
\* called any more for that flow.
C10_NoCallbackAfterStop ==
    [][(stopReturned /\ nflows' = nflows) => delivered' = delivered]_vars

\* the steps of the finally clause of _acquire_thread_run
TeardownStep ==
    AcqTeardown \/ AcqFinishSeq \/ AcqUninitSeq \/ AcqRelease \/ AcqClear

\* the thread holds the acquisition lock: from its start to the release
HoldsLock == cpc \notin {"none", "clear", "exited"}

\* C11: at most one acquisition thread is in the acquire loop: the lock is
\* held exactly while the thread of the flow is between its start and its
\* release of the lock, and start_flow starts a new thread only when the
\* previous one has ended and the lock is free.
C11_OneAcquireThread ==
    /\ [](acquisition_lock <=> HoldsLock)
    /\ [][nflows' # nflows =>
            /\ cpc \in {"none", "exited"}
            /\ ~acquisition_lock
            /\ cpc' = "while"]_vars

\* C11 witness: the thread of a second flow is in the loop with a frame to
\* deliver, after the first flow was stopped.
C11_Witness ==
    /\ nflows = 2
    /\ cpc = "deliver"
    /\ acquisition_lock

\* C12: whatever ended the loop, the finally clause runs to its end: the
\* thread can always take its next teardown step, a thread that has ended
\* has tried the abort, the finish of a sequence that was set up and the
\* uninit, whichever of them raised, and has released the lock exactly
\* once; the abort that did not raise leaves no exposure in progress, and
\* the thread ends with the lock free and the stop flag clear.
C12_TeardownAlwaysRuns ==
    /\ []((LoopLeft /\ cpc # "exited") => ENABLED TeardownStep)
    /\ [](cpc = "exited" =>
             /\ tdSteps = {"abort", "uninit", "release", "clear"}
                             \cup (IF cbuffer THEN {"finish"} ELSE {})
             /\ releases = 1)
    /\ [](releases <= 1 /\ tdFaults \subseteq tdSteps)
    /\ []((cpc \in {"td_finish", "td_uninit", "release", "clear", "exited"}
            /\ "abort" \notin tdFaults) => expStatus # "in_progress")
    /\ [][(cpc # "exited" /\ cpc' = "exited") =>
            /\ cpc = "clear"
            /\ ~acquire_must_stop'
            /\ ~acquisition_lock']_vars

\* C12 witness: the loop ended by too many failures, every try of the
\* finally clause raised, and the thread has ended with the lock free.
C12_Witness ==
    /\ fatal
    /\ tdFaults = {"abort", "finish", "uninit"}
    /\ cpc = "exited"
    /\ ~acquisition_lock
    /\ releases = 1

\* s is a prefix of t
IsPrefix(s, t) == Len(s) <= Len(t) /\ \A i \in 1 .. Len(s) : s[i] = t[i]

RunningSubs == {k \in SubTasks : subThread[k] = "running"}

\* C13: the sub-tasks are started in the order hole detection, offset
\* alignment, rotation and scaling for a first insertion, and only hole
\* detection is started for a re-insertion; a sub-task is started only
\* after the one before it has given its result, and when no sub-task is
\* running, so that at most one is running at a time.
C13_SubTasksInOrder ==
    /\ [](IsPrefix(started, IF first_insertion THEN SubOrder
                                               ELSE <<SubOrder[1]>>))
    /\ [](\A i \in 2 .. Len(started) : subFut[started[i - 1]] = "result")
    /\ [](Cardinality(RunningSubs) <= 1)
    /\ [][started' # started => RunningSubs = {}]_vars

\* C13 witness: a first insertion has started the three sub-tasks and the
\* pipeline has returned the calibration.
C13_Witness ==
    /\ first_insertion
    /\ started = SubOrder
    /\ kpc = "ended"
    /\ convOutcome = "result"

\* C14: a call of the canceller on a pipeline that has not finished marks
\* it cancelled and calls cancel() on the three sub-task futures (which
\* changes only a running one), then waits, and its return is always True,
\* with the completion signal or without it; on a finished pipeline the
\* call returns False at once and changes nothing.
C14_CancellerFansOut ==
    /\ [][convCancels' # convCancels =>
            IF conversion_update_state = FINISHED
            THEN /\ convCancelRet' = "False"
                 /\ conversion_update_state' = FINISHED
                 /\ subFut' = subFut
                 /\ cancelledSubs' = {}
                 /\ xpc' = "idle"
            ELSE /\ conversion_update_state' = CANCELLED
                 /\ cancelledSubs' = SubTasks
                 /\ \A k \in SubTasks :
                      subFut'[k] = IF subFut[k] = "running" THEN "cancelled"
                                   ELSE subFut[k]
                 /\ xpc' = "wait"]_vars
    /\ [][(xpc = "wait" /\ xpc' = "idle") => convCancelRet' = "True"]_vars
    /\ [](xpc = "wait" => ENABLED CancelUpdateConversionReturn)

\* C14 witness: the canceller has returned True although the completion
\* signal had not arrived; a sub-task had not been started when it ran.
C14_Witness ==
    /\ convCancelRet = "True"
    /\ xpc = "idle"
    /\ ~doneAtReturn
    /\ cancelledSubs = SubTasks
    /\ \E k \in SubTasks : subFut[k] = "instantaneous"

\* C15 (as stated): when a sub-task has failed with a detection fault, the
\* pipeline ends with the error, no other sub-task is started after it and
\* the metadata of the stage are not updated.
C15_FaultResolvesAsError ==
    \A k \in SubTasks :
        subFut[k] = "IOError" =>
            /\ started[Len(started)] = k
            /\ ~metadataUpdated
            /\ kpc = "ended" => convOutcome = "IOError"

\* C15 (amended): when a sub-task has failed with a detection fault, no
\* other sub-task is started after it, the metadata of the stage are not
\* updated and the pipeline never ends with a result: it ends with the
\* error, or as cancelled when it was cancelled before its finally clause.
C15_FaultEndsPipeline ==
    \A k \in SubTasks :
        subFut[k] = "IOError" =>
            /\ started[Len(started)] = k
            /\ ~metadataUpdated
            /\ kpc \in {"wait", "finally", "ended"}
            /\ convOutcome # "result"
            /\ kpc = "ended" =>
                  convOutcome = IF conversion_update_state = CANCELLED
                                THEN "CancelledError" ELSE "IOError"

\* C15 witness: the second sub-task of a first insertion has failed and the
\* pipeline has ended with the error, the third never started.
C15_Witness ==
    /\ subFut["AlignAndOffset"] = "IOError"
    /\ subFut["RotationAndScaling"] = "instantaneous"
    /\ kpc = "ended"
    /\ convOutcome = "IOError"

\* a step that is a call of set_running_or_notify_cancel()
SetRunningCall == srnCalls' # srnCalls

\* a step that is the call add_update_callback(l)
AddCall(l) == l \notin registered /\ l \in registered'

\* C16 (as stated): set_running_or_notify_cancel() sets a pending future
\* running, with the current time as start time, and returns True; on a
\* future cancelled while pending it returns False, and such a future never
\* becomes running; every call after the first is rejected.
C16_SecondCallRejected ==
    /\ [][SetRunningCall =>
            /\ state = PENDING =>
                  (state' = RUNNING /\ start_time' = now /\ srnRet' = "True")
            /\ (state = CANCELLED /\ srnCalls = 0) =>
                  (state' = CANCELLED_AND_NOTIFIED /\ srnRet' = "False")
            /\ srnCalls >= 1 =>
                  (srnRet' = "RuntimeError" /\ state' = state
                   /\ start_time' = start_time /\ end_time' = end_time)]_vars
    /\ [][Cancelled(state) => state' # RUNNING]_vars

\* C16 (amended): as above, but a call after the first is rejected only
\* when the future is not in the state CANCELLED: a future cancelled while
\* running is back in that state, and the call then returns False.
C16_SetRunning ==
    /\ [][SetRunningCall =>
            /\ state = PENDING =>
                  (state' = RUNNING /\ start_time' = now /\ srnRet' = "True")
            /\ state = CANCELLED =>
                  (state' = CANCELLED_AND_NOTIFIED /\ srnRet' = "False")
            /\ (srnCalls >= 1 /\ state # CANCELLED) =>
                  (srnRet' = "RuntimeError" /\ state' = state
                   /\ start_time' = start_time /\ end_time' = end_time)]_vars
    /\ [][Cancelled(state) => state' # RUNNING]_vars
    /\ [](srnCalls >= 1 => state # PENDING)

\* C16 witness: a second call on the running future was rejected.
C16_Witness ==
    /\ srnCalls = 2
    /\ srnRet = "RuntimeError"
    /\ state = RUNNING
    /\ start_time = now

\* C17: every report given to a listener has a time left of at least 0,
\* and the time past of the reports of the running future is at least 0
\* and never decreases from one report to the next, whatever end times are
\* set.
C17_ReportsClamped ==
    /\ [](\A l \in Listeners :
            lastReport[l] # NoReport => lastReport[l].left >= 0)
    /\ [](\A l \in Listeners :
            lastReport[l].state = RUNNING => lastReport[l].past >= 0)
    /\ [][\A l \in Listeners :
            (lastReport[l].state = RUNNING /\ lastReport'[l].state = RUNNING)
               => lastReport'[l].past >= lastReport[l].past]_vars

\* C17 witness: the end time of the running future was set to a time
\* already past, and the listener was told a time left of 0 after a time
\* past of more than 0.
C17_Witness ==
    /\ state = RUNNING
    /\ end_time < now
    /\ \E l \in Listeners :
         /\ lastReport[l].state = RUNNING
         /\ lastReport[l].left = 0
         /\ lastReport[l].past > 0

\* C18 (as stated): add_update_callback on a pending or running future
\* stores the callback and calls it at once with the current progress.
C18_AddCallsAtOnce ==
    [][\A l \in Listeners :
         (AddCall(l) /\ state \in {PENDING, RUNNING}) =>
            /\ l \in upd_callbacks'
            /\ lastReport'[l] # NoReport]_vars

\* C19 (as stated): add_update_callback on a future in a terminal state
\* calls the callback at once with the final progress (time left 0) and
\* does not store it.
C19_AddOnTerminalCalls ==
    [][\A l \in Listeners :
         (AddCall(l) /\ Done(state)) =>
            /\ l \notin upd_callbacks'
            /\ Done(lastReport'[l].state)
            /\ lastReport'[l].left = 0]_vars

\* C20 (as stated): the reports reach a listener in the order of the states
\* they describe: after the report of a terminal state the listener gets no
\* report of a state that is not terminal with time left.
C20_ReportsInOrder ==
    [][\A l \in Listeners :
         Done(lastReport[l].state) =>
            ~(/\ ~Done(lastReport'[l].state)
              /\ lastReport'[l].left > 0)]_vars

\* ------------------------------------------------------------------------
\* C21: once the future is in a terminal state, its start_time and its
\* end_time never change again, whatever the executing task does
\* afterwards.  The writes that belong to the call that ended the future
\* (the times set by set_running_or_notify_cancel, set_result and
\* set_exception right after the state change) are not counted.
\* ------------------------------------------------------------------------
C21_TimesFrozenOnceDone ==
    [][(Done(state) /\ pc \notin {"srn_time", "fin_time"}) =>
          (start_time' = start_time /\ end_time' = end_time)]_vars

\* ------------------------------------------------------------------------
\* C22: when the future reaches a terminal state, its end_time is fixed to
\* the time of the termination: a cancel() that cancels the running
\* future while its task waits on a source leaves end_time at the current
\* time, and so do set_result and set_exception.
\* ------------------------------------------------------------------------
C22_EndTimeAtTermination ==
    /\ [][(CancelCall /\ state = RUNNING /\ pc = "wait" /\ Done(state')) =>
            end_time' = now]_vars
    /\ [][(pc = "fin_time" /\ pc' # pc) => end_time' = now]_vars

\* ------------------------------------------------------------------------
\* C23: the streams are acquired by decreasing weight, and streams of equal
\* weight in the order in which they come in the list given to the task.
\* ------------------------------------------------------------------------
\* position of a stream in a list without repetition
PosIn(q, x) == CHOOSE i \in 1 .. Len(q) : q[i] = x

C23_OrderedByWeightThenGiven ==
    opc = "done" =>
       /\ Range(streams) = Range(given)
       /\ Len(streams) = Len(given)
       /\ \A i, j \in 1 .. Len(streams) :
             i < j =>
               LET wi == secom_weight_stream(kindOf[streams[i]])
                   wj == secom_weight_stream(kindOf[streams[j]])
               IN  /\ wi >= wj
                   /\ wi = wj => PosIn(given, streams[i]) < PosIn(given, streams[j])

\* ------------------------------------------------------------------------
\* C24: the time run() expects to need starts as the sum of the estimates
\* of all the streams, goes down by the estimate of a stream when the data
\* of that stream is collected, so that it is always the sum of the
\* estimates of the streams not yet collected, and is 0 when run()
\* returns; each time it is computed, the end time now + expected_time is
\* given to the future.
\* ------------------------------------------------------------------------
C24_ExpectedTimeGoesDown ==
    /\ [](pc \in {"run_upd", "loop", "wait", "woken", "collect", "collect_upd",
                  "set_result"} =>
             expected_time = SumTimes(streamTimes, Streams \ Range(raw_images)))
    /\ [](pc = "set_result" => expected_time = 0)
    /\ [][(pc = "run" /\ pc' # pc) =>
             /\ expected_time' = SumTimes(streamTimes, Streams)
             /\ end_time' = now + expected_time']_vars
    /\ [][(pc = "collect" /\ pc' # pc) =>
             /\ expected_time' = expected_time - streamTimes[current_stream]
             /\ end_time' = now + expected_time']_vars

\* run() has collected every stream and returns, at a time later than its
\* start
C24_Witness ==
    /\ pc = "set_result"
    /\ Len(raw_images) = NumStreams
    /\ expected_time = 0
    /\ now > start_time

\* ------------------------------------------------------------------------
\* C25: when cancel() is never called and no stream fails, the future
\* finishes with the data of every stream, once each, in the order of
\* acquisition, and the data of each stream carries the name of that
\* stream.
\* ------------------------------------------------------------------------
C25_ResultIsAllData ==
    (/\ state = FINISHED
     /\ pc \in {"fin_time", "fin_upd", "done"}
     /\ ncancel = 0
     /\ exception = NoValue) =>
       /\ result = streams
       /\ \A i \in 1 .. Len(result) :
             md_description[result[i]] = name_value(result[i])

\* the future has finished with the data of all the streams
C25_Witness ==
    /\ state = FINISHED
    /\ pc = "done"
    /\ ncancel = 0
    /\ exception = NoValue
    /\ Len(result) = NumStreams

\* ------------------------------------------------------------------------
\* C26: the metadata of the combined stage (rotation, position and scale
\* corrections) are written only on the re-insertion path, after hole
\* detection gave its result and the test of the state found the pipeline
\* not cancelled; on a first insertion they are never written, and a run
\* whose try block ends by an error or a cancellation has not written them.
\* ------------------------------------------------------------------------
C26_MetadataOnlyOnReinsertion ==
    /\ [](metadataUpdated =>
             /\ ~first_insertion
             /\ started = <<"HoleDetection">>
             /\ subFut["HoleDetection"] = "result"
             /\ convBody = "result")
    /\ [](convBody \in {"IOError", "CancelledError"} => ~metadataUpdated)
    /\ [][(metadataUpdated' # metadataUpdated) => kpc = "extra"]_vars
    /\ [][(kpc' = "extra" /\ kpc # "extra") =>
             /\ conversion_update_state # CANCELLED
             /\ ~first_insertion]_vars

\* a re-insertion has ended with the metadata written
C26_Witness ==
    /\ ~first_insertion
    /\ metadataUpdated
    /\ kpc = "ended"
    /\ convOutcome = "result"

\* ------------------------------------------------------------------------
\* C27: every write to and read of the serial port is made by a thread that
\* has locked _ser_access; a thread never waits for the lock while it has
\* locked it itself (_tryRecover releases the lock before it sends the
\* commands again); when _tryRecover returns its thread has locked the
\* lock again; and a thread never releases the lock without having locked
\* it.
\* ------------------------------------------------------------------------
C27_SerialMutex ==
    /\ [](~unlockedIO)
    /\ [](\A t \in LleThreads :
             lpc[t] \in {"acquire", "rec_acquire"} => ser_holder # t)
    /\ [][\A t \in LleThreads :
             (lpc[t] = "rec_acquire" /\ lpc'[t] # "rec_acquire") =>
                ser_holder' = t]_vars
    /\ [](~badRelease)

\* ------------------------------------------------------------------------
\* C28: on a re-insertion, when the holes detected are at the stored
\* positions, CalculateExtraOffset returns the known offset and the known
\* rotation, whatever the known scaling.
\* ------------------------------------------------------------------------
SameHoles ==
    /\ extraIn.new_first_hole = extraIn.expected_first_hole
    /\ extraIn.new_second_hole = extraIn.expected_second_hole

C28_IdentityCorrection ==
    (extraOut # NoExtra /\ SameHoles) =>
       /\ extraOut.updated_offset = extraIn.offset
       /\ extraOut.updated_rotation = extraIn.rotation

\* the call was made with the stored positions, a known offset that is
\* not zero and a known scaling that is not 1
C28_Witness ==
    /\ extraOut # NoExtra
    /\ SameHoles
    /\ extraIn.offset = <<1, 2>>
    /\ extraIn.scaling = <<2, 2>>
    /\ extraOut.updated_offset = <<1, 2>>

\* ------------------------------------------------------------------------
\* C29: for a distance of 2^e times the error margin an estimate counts
\* min(e, MAX_STEPS) steps: 3 for 8 times the margin, MAX_STEPS for 2^MAX_STEPS
\* times the margin and more; it counts MAX_STEPS when no distance is
\* given; the time estimated is the number of steps times the exposure
\* time plus 2 s.
\* ------------------------------------------------------------------------
C29_StepsEstimate ==
    estOut # NoEstimate =>
       /\ estIn.dist = NoDist => estOut.steps = MAX_STEPS
       /\ \A e \in 0 .. MaxExp :
             estIn.dist = Pow2(e) * ERR_MARGIN =>
                estOut.steps = (IF e <= MAX_STEPS THEN e ELSE MAX_STEPS)
       /\ estIn.dist = 8 * ERR_MARGIN => estOut.steps = 3
       /\ estIn.dist >= Pow2(MAX_STEPS) * ERR_MARGIN => estOut.steps = MAX_STEPS
       /\ estOut.time = estOut.steps * (estIn.et + 2)

\* an estimate was made for a distance above 2^MAX_STEPS times the margin
C29_Witness ==
    /\ estOut # NoEstimate
    /\ estIn.dist > Pow2(MAX_STEPS) * ERR_MARGIN
    /\ estIn.et = 1
    /\ estOut.steps = MAX_STEPS
    /\ estOut.time = 30

\* ------------------------------------------------------------------------
\* C30: once cancel() on the future of the acquisition has returned True,
\* no stream is subscribed to or active, and none is subscribed to or
\* activated afterwards, wherever the task thread was when cancel() was
\* called.
\* ------------------------------------------------------------------------
C30_NothingActiveAfterCancel ==
    /\ [](cancelRet = "True" =>
             \A s \in Streams : ~subscribed[s] /\ ~is_active[s])
    /\ [][cancelRet = "True" =>
             \A s \in Streams : /\ subscribed'[s] => subscribed[s]
                                /\ is_active'[s] => is_active[s]]_vars

\* ------------------------------------------------------------------------
\* C31: the settings path of the acquire loop runs only when needed
\* ------------------------------------------------------------------------

\* the thread is at the test of the first iteration of its loop
LoopEntry == delivered = 0 /\ consec = 0

\* the previous iteration ended in the handler of a transient fault
AfterFault == consec > 0

\* the thread goes from the loop test on to the exposure or the settings
LoopTestPassed == cpc = "while" /\ cpc' \in {"settings", "start"}

\* C31: the settings path (abort, finish the sequence, commit, set up the
\* sequence) is entered only from the loop test, and only on loop entry,
\* after a transient fault, or when the active settings differ from the
\* committed ones; the commit leaves the two equal; an iteration in which
\* none of the three holds goes straight to pl_exp_start_seq, on the
\* sequence set up before and with the committed settings untouched.
C31_CommitOnlyWhenNeeded ==
    /\ [][(cpc' = "settings" /\ cpc # "settings") =>
            /\ cpc = "while"
            /\ LoopEntry \/ AfterFault \/ settings # prev_settings]_vars
    /\ [][(cpc = "commit" /\ cpc' = "start") =>
            prev_settings' = settings']_vars
    /\ [][(LoopTestPassed /\ ~LoopEntry /\ ~AfterFault
             /\ settings = prev_settings) =>
            /\ cpc' = "start"
            /\ cbuffer'
            /\ prev_settings' = prev_settings]_vars
    /\ [](cpc = "start" => cbuffer /\ ~need_reinit)

\* after a frame, with nothing changed, the thread is at pl_exp_start_seq
\* without having gone through the settings path
C31_Witness ==
    /\ cpc = "start"
    /\ startVia = "armed"
    /\ delivered >= 1
    /\ consec = 0
    /\ settings = prev_settings
    /\ cbuffer

\* ------------------------------------------------------------------------
\* C32: what the acquire loop does on a transient fault
\* ------------------------------------------------------------------------

\* the handler of a transient fault has run and the loop goes on
FaultRetried == cpc = "poll" /\ cpc' = "while"

InLoop ==
    cpc \in {"while", "settings", "reinit", "commit", "start", "sleep",
             "poll", "deliver"}

\* the thread has ended after the whole finally clause
ThreadEnded ==
    /\ cpc = "exited"
    /\ {"abort", "uninit", "release", "clear"} \subseteq tdSteps
    /\ releases = 1
    /\ ~acquisition_lock

\* C33 as stated: a stop requested while the thread is in its loop is
\* followed by the end of the thread, teardown run and lock released.
C33_StopEndsThread == (acquire_must_stop /\ InLoop) ~> ThreadEnded

\* C33, amended: the same, provided a camera that is gone is there again
\* from some time on (Reinitialize polls until then and does not look at
\* the stop request).
C33_StopEndsThreadIfCameraBack ==
    (<>[]camPresent) => ((acquire_must_stop /\ InLoop) ~> ThreadEnded)

\* the thread has ended on a stop request made while the exposure went on
C33_Witness ==
    /\ ThreadEnded
    /\ stopReturned
    /\ ~fatal
    /\ delivered >= 1

\* ------------------------------------------------------------------------
\* C34: the centring loops are bounded
\* ------------------------------------------------------------------------

\* the thread of the sub-task is in its function
SubRunning == spc \notin {"idle", "ended"}

\* the marker is at most ERR_MARGIN off the centre of the image
WithinMargin(t) == t[1] * t[1] + t[2] * t[2] <= ERR_MARGIN * ERR_MARGIN

\* the centring loop of a position is left by one of its two break
LoopBreak == spc = "while" /\ spc' = "for"

\* C34: at each position of _DoHoleDetection and _DoRotationAndScaling at
\* most MAX_STEPS relative moves are made; a move is made only when the
\* distance just measured is beyond ERR_MARGIN; the loop is left when the
\* distance is within the margin or the steps are used up, and a position
\* is then recorded; and a sub-task that was started ends.
C34_CentringBounded ==
    /\ [](relMoves <= MAX_STEPS /\ steps = relMoves)
    /\ [][relMoves' = relMoves + 1 =>
            (~WithinMargin(tab') /\ relMoves < MAX_STEPS)]_vars
    /\ [][LoopBreak =>
            /\ WithinMargin(tab') \/ relMoves = MAX_STEPS
            /\ WithinMargin(tab') => tab' = Measure(sfun, marker)
            /\ Len(recorded') = Len(recorded) + 1]_vars
    /\ SubRunning ~> (spc = "ended")

\* a position was recorded after MAX_STEPS moves that did not bring the
\* marker within the margin
C34_Witness ==
    /\ sfun \in Centring
    /\ spc = "for"
    /\ marker > 1
    /\ relMoves = MAX_STEPS
    /\ ~WithinMargin(tab)
    /\ Len(recorded) = marker - 1

\* ------------------------------------------------------------------------
\* C35: the life of the timer thread
\* ------------------------------------------------------------------------

\* run() has gone past timer.start()
TimerStarted == tpc # "none"

\* C35: run() starts the timer thread before anything else; the thread
\* does not end while the future is not done, and each of its turns then
\* goes through _invoke_upd_callbacks for the callbacks registered; once
\* the future is done (result, error or cancelled) the thread ends.
C35_TimerEndsWithFuture ==
    /\ [](pc \in {"run_upd", "loop", "wait", "woken", "collect",
                  "collect_upd"} => TimerStarted)
    /\ [](tpc = "done" => Done(state))
    /\ [][(tpc = "check" /\ ~Done(state) /\ tpc' # tpc) =>
            (tpc' = "upd" /\ tTodo' = upd_callbacks)]_vars
    /\ (TimerStarted /\ Done(state)) ~> (tpc = "done")

\* the timer thread has ended after a cancel() of the running acquisition
C35_Witness ==
    /\ tpc = "done"
    /\ state = CANCELLED
    /\ cancelRet = "True"
    /\ cancelAt = "wait"

\* ------------------------------------------------------------------------
\* C36: the internal state of the pipeline and of a sub-task
\* ------------------------------------------------------------------------

\* a new call of the sub-task function: a new future, with a state of its own
NewSubRun == subRuns' = subRuns + 1

\* C36: the state of the pipeline, and the state of a sub-task, goes from
\* RUNNING to CANCELLED or to FINISHED and then stays; when the canceller
\* returned True the function ends by CancelledError, whatever its try
\* block returned; a canceller called on a FINISHED task returns False.
C36_OneTerminalState ==
    /\ [][/\ conversion_update_state' # conversion_update_state =>
             /\ conversion_update_state = RUNNING
             /\ conversion_update_state' \in {CANCELLED, FINISHED}
          /\ (sub_state' # sub_state /\ ~NewSubRun) =>
             /\ sub_state = RUNNING
             /\ sub_state' \in {CANCELLED, FINISHED}]_vars
    /\ [](/\ (convCancelRet \in {"True", "Pending"}) =>
               convOutcome \in {"none", "CancelledError"}
          /\ (convCancelRet \in {"True", "Pending"} /\ kpc = "ended") =>
               convOutcome = "CancelledError"
          /\ subCancelRet = "True" =>
               subOutcome \in {"none", "CancelledError"}
          /\ (subCancelRet = "True" /\ spc = "ended") =>
               subOutcome = "CancelledError")
    /\ [][/\ (conversion_update_state = FINISHED
              /\ convCancels' = convCancels + 1) =>
                (convCancelRet' = "False"
                 /\ conversion_update_state' = FINISHED)
          /\ (sub_state = FINISHED /\ subCancels' = subCancels + 1) =>
                (subCancelRet' = "False" /\ sub_state' = FINISHED)]_vars

\* the try block of a sub-task had returned its result when the canceller
\* was called, and the finally clause raised CancelledError in its place
C36_Witness ==
    /\ spc = "ended"
    /\ subBody = "result"
    /\ subCancelRet = "True"
    /\ sub_state = CANCELLED
    /\ subOutcome = "CancelledError"

\* ------------------------------------------------------------------------
\* C37: the sub-tasks after a cancellation of the pipeline
\* ------------------------------------------------------------------------

\* _CancelUpdateConversion has set the state to CANCELLED and called
\* cancel() on the three sub-task futures
PipelineMarkedCancelled ==
    /\ conversion_update_state = CANCELLED
    /\ cancelledSubs = SubTasks

\* C37: once the canceller has marked the pipeline cancelled and cancelled
\* the sub-task futures, the pipeline thread starts no sub-task, and no
\* sub-task is left running without having been cancelled.
C37_NoSubTaskAfterCancel ==
    /\ [][PipelineMarkedCancelled => started' = started]_vars
    /\ [](PipelineMarkedCancelled =>
            \A k \in SubTasks : subFut[k] # "running")

\* ------------------------------------------------------------------------
\* C38: the expected positions of the holes
\* ------------------------------------------------------------------------

\* C38: hole detection leaves EXPECTED_HOLES as it was at import, and the
\* absolute moves of every run of it go to those expected positions.
C38_ExpectedHolesKept ==
    /\ EXPECTED_HOLES = ExpectedHolesAtImport
    /\ sfun = "HoleDetection" =>
         \A i \in 1 .. Len(absTargets) :
            absTargets[i] = ExpectedHolesAtImport[i]

\* ------------------------------------------------------------------------
\* C39: the stop flag at the start of a flow
\* ------------------------------------------------------------------------

\* start_flow has started a new acquisition thread
ThreadStarted == nflows' = nflows + 1

\* C39: when start_flow starts the acquisition thread the stop flag is
\* clear, so the first test of the loop of the new thread can only be
\* failed by a stop request made for the new flow.
C39_StartsWithFlagClear ==
    [][ThreadStarted => ~acquire_must_stop']_vars

\* ------------------------------------------------------------------------
\* C40: the end of the task thread after a cancellation
\* ------------------------------------------------------------------------

\* C40: once AcquisitionTask.cancel() has run for the running future, the
\* "Acquisition task" thread ends, with no image of a stream needed for it.
C40_CancelEndsThread == cancelled ~> (pc = "done")

============================================================================
